---- MODULE Spec2Model ----
(***************************************************************************)
(* Model of the sft team-builder server's ability pipeline:                *)
(*   set JSON  --Load-->  models.Ability  --Format-->  template.HTML       *)
(*                                                                         *)
(* A Go string is modelled as a sequence of elements.  An element is       *)
(* either one character (a one-character TLA+ string) or a piece of markup *)
(* that the formatter itself writes with fmt.Sprintf / ReplaceAll (one of  *)
(* the literals in Markup, kept whole).  The bytes of the Go string are    *)
(* the concatenation of the elements.  No markup literal contains '@',     *)
(* '{' or '}', and every token pattern needs one of them as its first and  *)
(* last character with only [A-Za-z0-9_.*] between, so no token match can  *)
(* start, end or pass inside a markup literal; the parenthesis pattern is  *)
(* only ever run on escaped input text, which holds no markup yet.         *)
(*                                                                         *)
(* A float64 is modelled as an integer number of tenths (15 is 1.5).       *)
(*                                                                         *)
(* Spec follows one ability through the pipeline.  SpecServer runs the     *)
(* process: main builds the router, and concurrent requests go through the *)
(* handler, LoadUnits (behind its sync.Once) and the formatter, statement  *)
(* by statement, while the set data file may change on disk.               *)
(***************************************************************************)
EXTENDS Integers, Sequences, FiniteSets, TLC

VARIABLES json, pc, ability, escaped, withParen, withAtTokens, withBraceTokens, out

\* the server: the set data file, the process, the sync.Once, l.data (loaderData) and
\* l.loadErr of the LocalUnitsLoader, the runs of the load so far, and the
\* requests being served
VARIABLES disk, server, once, loaderData, loadErr, loads, req

abilityVars ==
  <<json, pc, ability, escaped, withParen, withAtTokens, withBraceTokens, out>>

serverVars == <<disk, server, once, loaderData, loadErr, loads, req>>

\* the unit loader: the set file and the unit directory on disk, the image
\* map, the units adapted so far, the index of the champion loop and the
\* position in load
VARIABLES setFile, unitDir, unitImages, units, chIndex, loadPc

loaderVars == <<setFile, unitDir, unitImages, units, chIndex, loadPc>>

\* the Gzip middleware: the request, the chunks the wrapped handler writes and
\* how many it has written, the header and the body of the response, the
\* bytes given to the gzip writer and the position in the middleware
VARIABLES rq, nextWrites, written, wHeader, wBody, gzw, gzPc

gzipVars == <<rq, nextWrites, written, wHeader, wBody, gzw, gzPc>>

\* the tooltips: tooltipStates, hoveredContainers, activePointerContainer and
\* activePointerId of tooltip-state.js (0 for null), the number of pending
\* timers of each tooltip; then the browser: where each pointer is, which
\* container holds its capture (0 for none), where the focus is; and, for each
\* container, whether the pointer came onto it with no capture active and the
\* tooltip enabled, and no event has reached its handlers since
VARIABLES tooltipStates, hoveredContainers, activePointerContainer,
          activePointerId, timers, pointerAt, pointerCapture, focus, quiet

tooltipVars ==
  <<tooltipStates, hoveredContainers, activePointerContainer, activePointerId,
    timers, pointerAt, pointerCapture, focus, quiet>>

\* the unit filter of the page: the unit containers of the document, the
\* criteria held by the filter state, the value filterUnits returned (over
\* the positions of the containers) and whether it has been called
VARIABLES elements, criteria, filtered, filterPc

filterVars == <<elements, criteria, filtered, filterPc>>

vars ==
  <<abilityVars, serverVars, loaderVars, gzipVars, tooltipVars, filterVars>>

\* what the steps of one part of the program leave alone
outsidePipeline ==
  <<serverVars, loaderVars, gzipVars, tooltipVars, filterVars>>

outsideServer ==
  <<abilityVars, loaderVars, gzipVars, tooltipVars, filterVars>>

outsideLoader ==
  <<abilityVars, serverVars, gzipVars, tooltipVars, filterVars>>

outsideGzip ==
  <<abilityVars, serverVars, loaderVars, tooltipVars, filterVars>>

outsideTooltips ==
  <<abilityVars, serverVars, loaderVars, gzipVars, filterVars>>

outsideFilter ==
  <<abilityVars, serverVars, loaderVars, gzipVars, tooltipVars>>

----------------------------------------------------------------------------
(* Characters *)

LowerSeq == <<"a","b","c","d","e","f","g","h","i","j","k","l","m",
              "n","o","p","q","r","s","t","u","v","w","x","y","z">>

UpperSeq == <<"A","B","C","D","E","F","G","H","I","J","K","L","M",
              "N","O","P","Q","R","S","T","U","V","W","X","Y","Z">>

DigitSeq == <<"0","1","2","3","4","5","6","7","8","9">>

Range(f) == {f[i] : i \in DOMAIN f}

LowerSet == Range(LowerSeq)

UpperSet == Range(UpperSeq)

DigitSet == Range(DigitSeq)

LetterSet == LowerSet \cup UpperSet

\* unicode.IsSpace / regexp \s, restricted to the characters of the model
Whitespace == {" ", "\n", "\t", "\r"}

\* unicode.ToUpper
ToUpper(c) ==
  IF c \in LowerSet
    THEN UpperSeq[CHOOSE i \in DOMAIN LowerSeq : LowerSeq[i] = c]
    ELSE c

\* unicode.ToLower
ToLower(c) ==
  IF c \in UpperSet
    THEN LowerSeq[CHOOSE i \in DOMAIN UpperSeq : UpperSeq[i] = c]
    ELSE c

----------------------------------------------------------------------------
(* Library string functions used by the code *)

\* a local variable of the code: v is computed once and F names it
With(v, F(_)) == F(v)

\* the idiom "if x != "" { return x }", followed by the rest of the function
NonEmptyOr(x, rest) == IF x # <<>> THEN x ELSE rest

RECURSIVE TrimLeft(_)
TrimLeft(s) ==
  IF s # <<>> /\ Head(s) \in Whitespace THEN TrimLeft(Tail(s)) ELSE s

RECURSIVE TrimRight(_)
TrimRight(s) ==
  IF s # <<>> /\ s[Len(s)] \in Whitespace
    THEN TrimRight(SubSeq(s, 1, Len(s) - 1))
    ELSE s

\* strings.TrimSpace
TrimSpace(s) == TrimRight(TrimLeft(s))

\* strings.Join
RECURSIVE Join(_, _)
Join(parts, sep) ==
  IF parts = <<>> THEN <<>>
  ELSE IF Len(parts) = 1 THEN parts[1]
  ELSE parts[1] \o sep \o Join(Tail(parts), sep)

\* strings.HasPrefix(s[i-1:], lit)
HasPrefixAt(s, i, lit) ==
  /\ i + Len(lit) - 1 <= Len(s)
  /\ \A k \in 1..Len(lit) : s[i + k - 1] = lit[k]

\* strings.ReplaceAll(s, old, new), old non-empty: leftmost, non-overlapping
RECURSIVE ReplaceAllFrom(_, _, _, _)
ReplaceAllFrom(s, i, old, new) ==
  IF i > Len(s) THEN <<>>
  ELSE IF HasPrefixAt(s, i, old)
    THEN new \o ReplaceAllFrom(s, i + Len(old), old, new)
    ELSE <<s[i]>> \o ReplaceAllFrom(s, i + 1, old, new)

ReplaceAll(s, old, new) == ReplaceAllFrom(s, 1, old, new)

\* strings.Index(s, c) for a one-character c; 0 stands for Go's -1
RECURSIVE IndexFrom(_, _, _)
IndexFrom(s, i, c) ==
  IF i > Len(s) THEN 0
  ELSE IF s[i] = c THEN i
  ELSE IndexFrom(s, i + 1, c)

\* html.EscapeString, one character
EscapeChar(c) ==
  CASE c = "&"  -> <<"&","a","m","p",";">>
    [] c = "'"  -> <<"&","#","3","9",";">>
    [] c = "<"  -> <<"&","l","t",";">>
    [] c = ">"  -> <<"&","g","t",";">>
    [] c = "\"" -> <<"&","#","3","4",";">>
    [] OTHER    -> <<c>>

\* html.EscapeString
RECURSIVE EscapeString(_)
EscapeString(s) ==
  IF s = <<>> THEN <<>> ELSE EscapeChar(Head(s)) \o EscapeString(Tail(s))

\* digits of a natural number, most significant first
RECURSIVE NatDigits(_)
NatDigits(n) ==
  IF n < 10 THEN <<DigitSeq[n + 1]>>
  ELSE NatDigits(n \div 10) \o <<DigitSeq[(n % 10) + 1]>>

\* strconv.FormatFloat(f, 'f', -1, 64) for f given in tenths: the shortest
\* decimal that reads back as f, no trailing zero, no forced decimal point
FormatFloat(f) ==
  With(IF f < 0 THEN -f ELSE f, LAMBDA a :
    (IF f < 0 THEN <<"-">> ELSE <<>>)
    \o NatDigits(a \div 10)
    \o (IF a % 10 = 0 THEN <<>> ELSE <<".", DigitSeq[(a % 10) + 1]>>))

----------------------------------------------------------------------------
(* Ability formatter: units_loader.go, second file of the listing *)

\* Markup the formatter writes itself (fmt.Sprintf formats, "<br />")
GroupOpen == "<span class=\"ability-scaling-group\"><span class=\"ability-scaling-paren\">(</span>"

GroupClose == "<span class=\"ability-scaling-paren\">)</span></span>"

TokenOpen == "<span class=\"ability-token"

AttrClose == "\">"

SpanClose == "</span>"

PlusSpan == "<span class=\"ability-scaling-plus\">+</span>"

IconOpen == "<span class=\"ability-scaling-block\"><span class=\""

IconLabel == "\" aria-label=\""

IconText == "\"><span class=\"ability-icon-text\">"

IconClose == "</span></span></span>"

LineBreak == "<br />"

\* var scalingIconMap
scalingIconMap ==
  [k \in { <<"A","P">>, <<"A","D">>, <<"A","S">>, <<"A","R","M","O","R">>,
           <<"M","R">>, <<"C","C">>, <<"C","D">>, <<"H","P">>,
           <<"M","A","N","A">>, <<"R","A","N","G","E">>,
           <<"S","O","U","L","S">> } |->
     CASE k = <<"A","P">> -> "ability-token ability-icon ability-icon-ap"
       [] k = <<"A","D">> -> "ability-token ability-icon ability-icon-ad"
       [] k = <<"A","S">> -> "ability-token ability-icon ability-icon-as"
       [] k = <<"A","R","M","O","R">> -> "ability-token ability-icon ability-icon-armor"
       [] k = <<"M","R">> -> "ability-token ability-icon ability-icon-mr"
       [] k = <<"C","C">> -> "ability-token ability-icon ability-icon-crit-chance"
       [] k = <<"C","D">> -> "ability-token ability-icon ability-icon-crit-damage"
       [] k = <<"H","P">> -> "ability-token ability-icon ability-icon-health"
       [] k = <<"M","A","N","A">> -> "ability-token ability-icon ability-icon-mana"
       [] k = <<"R","A","N","G","E">> -> "ability-token ability-icon ability-icon-range"
       [] k = <<"S","O","U","L","S">> -> "ability-token ability-icon ability-icon-souls"]

Markup ==
  {GroupOpen, GroupClose, TokenOpen, AttrClose, SpanClose, PlusSpan,
   IconOpen, IconLabel, IconText, IconClose, LineBreak}
  \cup Range(scalingIconMap)

\* character class [A-Za-z0-9_*] of abilityAtTokenRe
AtTokenClass == LetterSet \cup DigitSet \cup {"_", "*"}

\* character class [A-Za-z0-9_.\*] of abilityBraceTokenRe
BraceTokenClass == LetterSet \cup DigitSet \cup {"_", ".", "*"}

\* last index of the longest run of class characters starting at i (i-1: none)
RECURSIVE RunEnd(_, _, _)
RunEnd(s, i, class) ==
  IF i <= Len(s) /\ s[i] \in class THEN RunEnd(s, i + 1, class) ELSE i - 1

IsAt(s, i, c) == i >= 1 /\ i <= Len(s) /\ s[i] = c

\* abilityAtTokenRe = @([A-Za-z0-9_*]+(?:\.[A-Za-z0-9_*]+)?)@
\* anchored at i: index of the closing '@' of the match, 0 when none.
\* The runs are greedy; a shorter run is always followed by a class
\* character, never by '.' or '@', so there is one way to match.
abilityAtTokenRe(s, i) ==
  IF ~IsAt(s, i, "@") THEN 0
  ELSE LET e1 == RunEnd(s, i + 1, AtTokenClass) IN
    IF e1 < i + 1 THEN 0
    ELSE IF IsAt(s, e1 + 1, ".")
      THEN LET e2 == RunEnd(s, e1 + 2, AtTokenClass) IN
           IF e2 >= e1 + 2 /\ IsAt(s, e2 + 1, "@") THEN e2 + 1 ELSE 0
    ELSE IF IsAt(s, e1 + 1, "@") THEN e1 + 1
    ELSE 0

\* abilityBraceTokenRe = {([A-Za-z0-9_.\*]+)}
abilityBraceTokenRe(s, i) ==
  IF ~IsAt(s, i, "{") THEN 0
  ELSE LET e == RunEnd(s, i + 1, BraceTokenClass) IN
    IF e >= i + 1 /\ IsAt(s, e + 1, "}") THEN e + 1 ELSE 0

\* abilityParenTokenRe = \(\s*([^()]*@[^@()]+@[^()]*)\s*\)
\* anchored at i: index of the closing ')' of the match, 0 when none.
\* [^()]* cannot pass a parenthesis, so the match ends at the first
\* parenthesis after i, which must be ')'; between them the pattern asks for
\* an '@', then one or more characters other than '@', then an '@'.
abilityParenTokenRe(s, i) ==
  IF ~IsAt(s, i, "(") THEN 0
  ELSE LET e == RunEnd(s, i + 1, Range(s) \ {"(", ")"}) + 1 IN
    IF /\ IsAt(s, e, ")")
       /\ \E p \in (i + 1)..(e - 1) :
            /\ s[p] = "@"
            /\ \E q \in (p + 2)..(e - 1) :
                 /\ s[q] = "@"
                 /\ \A k \in (p + 1)..(q - 1) : s[k] # "@"
      THEN e
      ELSE 0

\* the capture group of abilityParenTokenRe for the match s[i..e]: \s* is
\* greedy and takes the leading white space, the last [^()]* is greedy and
\* takes everything up to ')', trailing white space included
ParenSubmatch(s, i, e) == TrimLeft(SubSeq(s, i + 1, e - 1))

FieldValues == <<"v","a","l","u","e","s">>

FieldScaling == <<"s","c","a","l","i","n","g">>

FieldType == <<"t","y","p","e">>

\* func splitToken
splitToken(token) ==
  With(IndexFrom(token, 1, "."), LAMBDA dot :
    IF dot # 0
      THEN [name |-> SubSeq(token, 1, dot - 1),
            field |-> SubSeq(token, dot + 1, Len(token))]
      ELSE [name |-> token, field |-> <<>>])

\* func joinAbilityValues
joinAbilityValues(values) ==
  IF Len(values) = 0 THEN <<>>
  ELSE Join([i \in 1..Len(values) |-> FormatFloat(values[i])], <<"/">>)

\* the loop of joinDisplayValues: trimmed values, empty ones left out
RECURSIVE DisplayParts(_)
DisplayParts(values) ==
  IF values = <<>> THEN <<>>
  ELSE With(TrimSpace(Head(values)), LAMBDA v :
         (IF v # <<>> THEN <<v>> ELSE <<>>) \o DisplayParts(Tail(values)))

\* a join that keeps the blank entries
joinDisplayValues_KeepBlank(values) ==
  IF Len(values) = 0 THEN <<>>
  ELSE Join([i \in DOMAIN values |-> TrimSpace(values[i])], <<"/">>)

\* func joinDisplayValues
joinDisplayValues(values) ==
  IF Len(values) = 0 THEN <<>>
  ELSE With(DisplayParts(values), LAMBDA parts :
         IF Len(parts) = 0 THEN <<>> ELSE Join(parts, <<"/">>))

\* a chain that ends with the variable name, without the field name
fallback_WithoutFieldName(v, field) ==
  NonEmptyOr(joinDisplayValues(v.DisplayValues),
    NonEmptyOr(joinAbilityValues(v.Values),
      NonEmptyOr(v.Type, v.Name)))

\* a chain that tries the variable name before the type
fallback_NameBeforeType(v, field) ==
  NonEmptyOr(joinDisplayValues(v.DisplayValues),
    NonEmptyOr(joinAbilityValues(v.Values),
      NonEmptyOr(v.Name, NonEmptyOr(v.Type, field))))

\* selectAbilityContent, lines 268-282: the fallbacks after the switch
fallback(v, field) ==
  NonEmptyOr(joinDisplayValues(v.DisplayValues),
    NonEmptyOr(joinAbilityValues(v.Values),
      NonEmptyOr(v.Type, NonEmptyOr(v.Name, field))))

\* func selectAbilityContent
selectAbilityContent(v, field) ==
  With(fallback(v, field), LAMBDA fb :
    IF field = FieldValues \/ field = <<>>
      THEN NonEmptyOr(joinDisplayValues(v.DisplayValues),
             NonEmptyOr(joinAbilityValues(v.Values), fb))
    ELSE IF field = FieldScaling
      THEN IF Len(v.Scalings) > 0 THEN Join(v.Scalings, <<" ","+"," ">>)
           ELSE NonEmptyOr(v.Scaling, fb)
    ELSE IF field = FieldType
      THEN NonEmptyOr(v.Type, fb)
    ELSE fb)

\* a key that keeps the case of the letters
RECURSIVE normalizeScalingKey_KeepCase(_)
normalizeScalingKey_KeepCase(s) ==
  IF s = <<>> THEN <<>>
  ELSE (IF Head(s) \in LetterSet \cup DigitSet THEN <<Head(s)>> ELSE <<>>)
       \o normalizeScalingKey_KeepCase(Tail(s))

\* func normalizeScalingKey
RECURSIVE normalizeScalingKey(_)
normalizeScalingKey(s) ==
  IF s = <<>> THEN <<>>
  ELSE (IF Head(s) \in LetterSet \cup DigitSet
          THEN <<ToUpper(Head(s))>> ELSE <<>>)
       \o normalizeScalingKey(Tail(s))

\* func scalingIconClass: the class as a one-element string, or ""
scalingIconClass(raw) ==
  With(normalizeScalingKey(raw), LAMBDA key :
    IF key = <<>> THEN <<>>
    ELSE IF key \in DOMAIN scalingIconMap THEN <<scalingIconMap[key]>>
    ELSE <<>>)

\* func scalingParts
scalingParts(v) ==
  IF Len(v.Scalings) > 0 THEN v.Scalings
  ELSE IF TrimSpace(v.Scaling) # <<>> THEN <<v.Scaling>>
  ELSE <<>>

\* one rendered part of renderScalingIcons: the icon span or the plain span
ScalingPartSpan(part) ==
  With(scalingIconClass(part), LAMBDA iconClass :
    With(EscapeString(part), LAMBDA text :
      IF iconClass # <<>>
        THEN <<IconOpen>> \o iconClass \o <<IconLabel>> \o text
             \o <<IconText>> \o text \o <<IconClose>>
        ELSE <<TokenOpen, AttrClose>> \o text \o <<SpanClose>>))

\* the loop of renderScalingIcons; i is the Go index plus one
RECURSIVE ScalingLoop(_, _, _)
ScalingLoop(parts, i, rendered) ==
  IF i > Len(parts) THEN rendered
  ELSE With(TrimSpace(parts[i]), LAMBDA part :
    IF part = <<>> THEN ScalingLoop(parts, i + 1, rendered)
    ELSE ScalingLoop(parts, i + 1,
           (IF i > 1 THEN Append(rendered, <<PlusSpan>>) ELSE rendered)
           \o <<ScalingPartSpan(part)>>))

\* func renderScalingIcons
renderScalingIcons(v) ==
  With(scalingParts(v), LAMBDA parts :
    IF Len(parts) = 0 THEN <<>>
    ELSE With(ScalingLoop(parts, 1, <<>>), LAMBDA rendered :
           IF Len(rendered) = 0 THEN <<>> ELSE Join(rendered, <<>>)))

\* the class attribute of renderAbilityValue: "ability-token", then the
\* trimmed cssClass after a space when it is not empty
TokenClasses(v) ==
  With(TrimSpace(v.CSSClass), LAMBDA css :
    <<TokenOpen>> \o (IF css # <<>> THEN <<" ">> \o css ELSE <<>>))

\* func renderAbilityValue
renderAbilityValue(v, field) ==
  With(selectAbilityContent(v, field), LAMBDA content :
    IF content = <<>> THEN <<>>
    ELSE NonEmptyOr(IF field = FieldScaling THEN renderScalingIcons(v) ELSE <<>>,
           TokenClasses(v) \o <<AttrClose>> \o EscapeString(content)
           \o <<SpanClose>>))

\* a callback that drops a token whose name is not a key of the map
TokenReplacement_DropUnresolved(match, variables) ==
  With(splitToken(SubSeq(match, 2, Len(match) - 1)), LAMBDA nf :
    IF nf.name \notin DOMAIN variables THEN <<>>
    ELSE NonEmptyOr(renderAbilityValue(variables[nf.name], nf.field), match))

\* the callback of replaceAbilityTokens for one match (delimiters included)
TokenReplacement(match, variables) ==
  With(splitToken(SubSeq(match, 2, Len(match) - 1)), LAMBDA nf :
    IF nf.name \notin DOMAIN variables THEN match
    ELSE NonEmptyOr(renderAbilityValue(variables[nf.name], nf.field), match))

TokenRe(re, s, i) ==
  IF re = "at" THEN abilityAtTokenRe(s, i) ELSE abilityBraceTokenRe(s, i)

\* re.ReplaceAllStringFunc: leftmost matches, left to right, no overlap
RECURSIVE ReplaceTokensFrom(_, _, _, _)
ReplaceTokensFrom(s, i, variables, re) ==
  IF i > Len(s) THEN <<>>
  ELSE With(TokenRe(re, s, i), LAMBDA e :
    IF e = 0 THEN <<s[i]>> \o ReplaceTokensFrom(s, i + 1, variables, re)
    ELSE TokenReplacement(SubSeq(s, i, e), variables)
         \o ReplaceTokensFrom(s, e + 1, variables, re))

\* func replaceAbilityTokens
replaceAbilityTokens(desc, variables, re) ==
  IF DOMAIN variables = {} THEN desc
  ELSE ReplaceTokensFrom(desc, 1, variables, re)

\* a callback that wraps every match, also when nothing in it resolved
ParenReplacement_AlwaysWrap(s, i, e, variables) ==
  With(TrimSpace(ParenSubmatch(s, i, e)), LAMBDA inner :
    <<GroupOpen>>
    \o replaceAbilityTokens(
         replaceAbilityTokens(inner, variables, "at"), variables, "brace")
    \o <<GroupClose>>)

\* the callback of replaceParenthesizedTokens for the match s[i..e]
ParenReplacement(s, i, e, variables) ==
  With(TrimSpace(ParenSubmatch(s, i, e)), LAMBDA inner :
    With(replaceAbilityTokens(
           replaceAbilityTokens(inner, variables, "at"), variables, "brace"),
         LAMBDA rendered :
      IF rendered = <<>> \/ rendered = inner THEN SubSeq(s, i, e)
      ELSE <<GroupOpen>> \o rendered \o <<GroupClose>>))

RECURSIVE ReplaceParenFrom(_, _, _)
ReplaceParenFrom(s, i, variables) ==
  IF i > Len(s) THEN <<>>
  ELSE With(abilityParenTokenRe(s, i), LAMBDA e :
    IF e = 0 THEN <<s[i]>> \o ReplaceParenFrom(s, i + 1, variables)
    ELSE ParenReplacement(s, i, e, variables)
         \o ReplaceParenFrom(s, e + 1, variables))

\* func replaceParenthesizedTokens
replaceParenthesizedTokens(desc, variables) ==
  IF DOMAIN variables = {} THEN desc
  ELSE ReplaceParenFrom(desc, 1, variables)

\* FormatAbilityDescription, lines 156-159: the description that is rendered
ChosenDescription(a) ==
  NonEmptyOr(TrimSpace(a.Description), TrimSpace(a.DescriptionRaw))

\* FormatAbilityDescription, lines 169-171
FinishOutput(withBrace) ==
  TrimSpace(ReplaceAll(withBrace, <<"\n">>, <<LineBreak>>))

----------------------------------------------------------------------------
(* Description Normalizer: ability_normalize.go *)

\* \w of the regexp package
WordClass == LetterSet \cup DigitSet \cup {"_"}

Lit_nbsp == <<"&","n","b","s","p",";">>

Lit_TrackerOpen ==
  <<"<","T","F","T","T","r","a","c","k","e","r","L","a","b","e","l",">">>

Lit_TrackerClose ==
  <<"<","/","T","F","T","T","r","a","c","k","e","r","L","a","b","e","l",">">>

Lit_UnitProperty ==
  <<"@","T","F","T","U","n","i","t","P","r","o","p","e","r","t","y",".">>

Lit_keyword == <<"k","e","y","w","o","r","d">>

\* first index >= i where lit starts in s, 0 when none
RECURSIVE FindFrom(_, _, _)
FindFrom(s, i, lit) ==
  IF i + Len(lit) - 1 > Len(s) THEN 0
  ELSE IF HasPrefixAt(s, i, lit) THEN i
  ELSE FindFrom(s, i + 1, lit)

\* (?i) literal at i
HasPrefixFoldAt(s, i, lit) ==
  /\ i + Len(lit) - 1 <= Len(s)
  /\ \A k \in 1..Len(lit) : ToLower(s[i + k - 1]) = lit[k]

\* \b between s[p-1] and s[p]
WordBoundary(s, p) ==
  LET before == p - 1 >= 1 /\ p - 1 <= Len(s) /\ s[p - 1] \in WordClass
      after == p >= 1 /\ p <= Len(s) /\ s[p] \in WordClass
  IN before # after

\* reTracker = (?s)<TFTTrackerLabel>.*?</TFTTrackerLabel>
reTracker(s, i) ==
  IF ~HasPrefixAt(s, i, Lit_TrackerOpen) THEN 0
  ELSE With(FindFrom(s, i + Len(Lit_TrackerOpen), Lit_TrackerClose), LAMBDA c :
    IF c = 0 THEN 0 ELSE c + Len(Lit_TrackerClose) - 1)

\* reUnitProp = @TFTUnitProperty\.[^@]+@
reUnitProp(s, i) ==
  IF ~HasPrefixAt(s, i, Lit_UnitProperty) THEN 0
  ELSE With(i + Len(Lit_UnitProperty), LAMBDA b :
    With(RunEnd(s, b, Range(s) \ {"@"}), LAMBDA e :
      IF e >= b /\ IsAt(s, e + 1, "@") THEN e + 1 ELSE 0))

\* reTags = </?[^>]+?>  ('<', at least one character other than '>', '>')
reTags(s, i) ==
  IF ~IsAt(s, i, "<") THEN 0
  ELSE With(RunEnd(s, i + 1, Range(s) \ {">"}), LAMBDA e :
    IF e >= i + 1 /\ IsAt(s, e + 1, ">") THEN e + 1 ELSE 0)

\* reScale = %i:[^%]+%
reScale(s, i) ==
  IF ~HasPrefixAt(s, i, <<"%","i",":">>) THEN 0
  ELSE With(RunEnd(s, i + 3, Range(s) \ {"%"}), LAMBDA e :
    IF e >= i + 3 /\ IsAt(s, e + 1, "%") THEN e + 1 ELSE 0)

\* reKeyword = (?i)\bkeyword\s*\d*\b : \s* and \d* are greedy and give
\* characters back, the digits first, until the closing \b holds, so the
\* match ends at the last place in the run that is a word boundary
reKeyword(s, i) ==
  IF ~(WordBoundary(s, i) /\ HasPrefixFoldAt(s, i, Lit_keyword)) THEN 0
  ELSE With(i + Len(Lit_keyword) - 1, LAMBDA w :
    With(RunEnd(s, RunEnd(s, w + 1, Whitespace) + 1, DigitSet), LAMBDA dg :
      With({e \in w..dg : WordBoundary(s, e + 1)}, LAMBDA ends :
        IF ends # {} THEN CHOOSE e \in ends : \A f \in ends : f <= e
        ELSE 0)))

\* (?i)\bkeyword\b
reKeywordBare(s, i) ==
  With(i + Len(Lit_keyword) - 1, LAMBDA w :
    IF WordBoundary(s, i) /\ HasPrefixFoldAt(s, i, Lit_keyword)
       /\ WordBoundary(s, w + 1)
      THEN w ELSE 0)

\* reDoubleBraces = {{[^{}]+}}
reDoubleBraces(s, i) ==
  IF ~HasPrefixAt(s, i, <<"{","{">>) THEN 0
  ELSE With(RunEnd(s, i + 2, Range(s) \ {"{", "}"}), LAMBDA e :
    IF e >= i + 2 /\ HasPrefixAt(s, e + 1, <<"}","}">>) THEN e + 2 ELSE 0)

\* a pattern without the optional "*100": @([A-Za-z0-9_]+)@
reVar_NameOnly(s, i) ==
  IF ~IsAt(s, i, "@") THEN 0
  ELSE With(RunEnd(s, i + 1, WordClass), LAMBDA e :
    IF e >= i + 1 /\ IsAt(s, e + 1, "@") THEN e + 1 ELSE 0)

\* reVar = @([A-Za-z0-9_]+(?:\*100)?)@
reVar(s, i) ==
  IF ~IsAt(s, i, "@") THEN 0
  ELSE With(RunEnd(s, i + 1, WordClass), LAMBDA e :
    IF e < i + 1 THEN 0
    ELSE IF HasPrefixAt(s, e + 1, <<"*","1","0","0","@">>) THEN e + 5
    ELSE IF IsAt(s, e + 1, "@") THEN e + 1
    ELSE 0)

NormalizeRe(re, s, i) ==
  CASE re = "tracker" -> reTracker(s, i)
    [] re = "unitprop" -> reUnitProp(s, i)
    [] re = "tags" -> reTags(s, i)
    [] re = "scale" -> reScale(s, i)
    [] re = "keyword" -> reKeyword(s, i)
    [] re = "keywordbare" -> reKeywordBare(s, i)
    [] re = "doublebraces" -> reDoubleBraces(s, i)
    [] re = "var" -> reVar(s, i)

\* the replacement template: "{$1}" for reVar, "" for the others
NormalizeTemplate(re, match) ==
  IF re = "var"
    THEN <<"{">> \o SubSeq(match, 2, Len(match) - 1) \o <<"}">>
    ELSE <<>>

\* re.ReplaceAllString
RECURSIVE ReplaceAllStringFrom(_, _, _)
ReplaceAllStringFrom(s, i, re) ==
  IF i > Len(s) THEN <<>>
  ELSE With(NormalizeRe(re, s, i), LAMBDA e :
    IF e = 0 THEN <<s[i]>> \o ReplaceAllStringFrom(s, i + 1, re)
    ELSE NormalizeTemplate(re, SubSeq(s, i, e))
         \o ReplaceAllStringFrom(s, e + 1, re))

ReplaceAllString(s, re) == ReplaceAllStringFrom(s, 1, re)

\* strings.Fields
RECURSIVE Fields(_)
Fields(s) ==
  With(TrimLeft(s), LAMBDA t :
    IF t = <<>> THEN <<>>
    ELSE With(RunEnd(t, 1, Range(t) \ Whitespace), LAMBDA e :
           <<SubSeq(t, 1, e)>> \o Fields(SubSeq(t, e + 1, Len(t)))))

\* func normalizeDescription
normalizeDescription(desc) ==
  With(ReplaceAll(desc, Lit_nbsp, <<" ">>), LAMBDA s1 :
  With(ReplaceAllString(s1, "tracker"), LAMBDA s2 :
  With(ReplaceAllString(s2, "unitprop"), LAMBDA s3 :
  With(ReplaceAllString(s3, "tags"), LAMBDA s4 :
  With(ReplaceAll(ReplaceAll(s4, <<"\\", "\"">>, <<>>), <<"\"", ">">>, <<>>),
       LAMBDA s5 :
  With(ReplaceAllString(s5, "scale"), LAMBDA s6 :
  With(ReplaceAllString(ReplaceAllString(s6, "keyword"), "keywordbare"),
       LAMBDA s7 :
  With(ReplaceAllString(s7, "doublebraces"), LAMBDA s8 :
  With(ReplaceAllString(s8, "var"), LAMBDA s9 :
  With(ReplaceAll(s9, <<" ", "(", ")">>, <<>>), LAMBDA s10 :
    Join(Fields(s10), <<" ">>)))))))))))

----------------------------------------------------------------------------
(* Decoding of the set JSON: units_types.go.  A JSON value is a record with *)
(* a kind: "null", "num" (num), "str" (str), "arr" (items), "bool", "obj". *)

DigitValue(c) == (CHOOSE i \in DOMAIN DigitSeq : DigitSeq[i] = c) - 1

RECURSIVE NatValue(_)
NatValue(ds) ==
  IF ds = <<>> THEN 0
  ELSE 10 * NatValue(SubSeq(ds, 1, Len(ds) - 1)) + DigitValue(ds[Len(ds)])

\* strconv.ParseFloat(t, 64) for the spellings [+-]digits and
\* [+-]digits.digit; every other text of the model is one Go rejects too
ParseFloat(t) ==
  With(t # <<>> /\ t[1] = "-", LAMBDA neg :
  With(IF t # <<>> /\ t[1] \in {"+", "-"} THEN Tail(t) ELSE t, LAMBDA body :
  With(IndexFrom(body, 1, "."), LAMBDA dot :
  With(IF dot = 0 THEN body ELSE SubSeq(body, 1, dot - 1), LAMBDA whole :
  With(IF dot = 0 THEN <<>> ELSE SubSeq(body, dot + 1, Len(body)), LAMBDA frac :
    IF /\ whole # <<>>
       /\ Range(whole) \subseteq DigitSet
       /\ dot # 0 => (Len(frac) = 1 /\ frac[1] \in DigitSet)
      THEN With(10 * NatValue(whole)
                + (IF dot = 0 THEN 0 ELSE DigitValue(frac[1])), LAMBDA mag :
             [ok |-> TRUE, val |-> IF neg THEN -mag ELSE mag])
      ELSE [ok |-> FALSE, val |-> 0])))))

\* a parse that keeps the "%"
parseFloatString_KeepPercent(str) == ParseFloat(TrimSpace(str))

\* func parseFloatString
parseFloatString(str) ==
  With(TrimSpace(str), LAMBDA t :
    ParseFloat(IF t # <<>> /\ t[Len(t)] = "%"
                 THEN SubSeq(t, 1, Len(t) - 1) ELSE t))

\* func formatFloat
formatFloat(f) == FormatFloat(f)

EmptyValueList == [nums |-> <<>>, display |-> <<>>]

\* func (v *valueList) parseSingle: [ok, v]
parseSingle(data) ==
  IF data.kind = "num"
    THEN [ok |-> TRUE,
          v |-> [nums |-> <<data.num>>, display |-> <<formatFloat(data.num)>>]]
  ELSE IF data.kind = "str"
    THEN With(TrimSpace(data.str), LAMBDA str :
         With(parseFloatString(str), LAMBDA parsed :
           [ok |-> TRUE,
            v |-> [nums |-> IF parsed.ok THEN <<parsed.val>> ELSE <<>>,
                   display |-> <<str>>]]))
  ELSE [ok |-> FALSE, v |-> EmptyValueList]

\* the loop of parseArray over rawItems; json.Unmarshal of a JSON null into
\* a float64 succeeds and leaves it 0
RECURSIVE ParseItems(_, _)
ParseItems(items, acc) ==
  IF items = <<>> THEN acc
  ELSE With(Head(items), LAMBDA item :
    IF item.kind \in {"num", "null"}
      THEN With(IF item.kind = "num" THEN item.num ELSE 0, LAMBDA num :
           ParseItems(Tail(items),
             [nums |-> Append(acc.nums, num),
              display |-> Append(acc.display, formatFloat(num))]))
    ELSE IF item.kind = "str"
      THEN With(TrimSpace(item.str), LAMBDA str :
           With(parseFloatString(str), LAMBDA parsed :
             ParseItems(Tail(items),
               [nums |-> IF parsed.ok THEN Append(acc.nums, parsed.val)
                                      ELSE acc.nums,
                display |-> Append(acc.display, str)])))
    ELSE ParseItems(Tail(items), acc))

\* func (v *valueList) parseArray: [ok, v]
parseArray(data) ==
  IF data.kind # "arr" THEN [ok |-> FALSE, v |-> EmptyValueList]
  ELSE With(ParseItems(data.items, EmptyValueList), LAMBDA r :
    IF Len(r.display) = 0 THEN [ok |-> FALSE, v |-> EmptyValueList]
    ELSE [ok |-> TRUE, v |-> r])

\* func (v *valueList) UnmarshalJSON: [err, v]
valueListUnmarshalJSON(data) ==
  IF data.kind = "null" THEN [err |-> FALSE, v |-> EmptyValueList]
  ELSE With(parseSingle(data), LAMBDA single :
    IF single.ok THEN [err |-> FALSE, v |-> single.v]
    ELSE With(parseArray(data), LAMBDA array :
      IF array.ok THEN [err |-> FALSE, v |-> array.v]
      ELSE [err |-> TRUE, v |-> EmptyValueList]))

\* func (v valueList) Numbers
Numbers(v) == v.nums

\* func (v valueList) Display
Display(v) == v.display

\* a loop that keeps the blank entries
ScalingItems_KeepBlank(list) == [i \in DOMAIN list |-> TrimSpace(list[i])]

\* the loop of scalingList.UnmarshalJSON over list
RECURSIVE ScalingItems(_)
ScalingItems(list) ==
  IF list = <<>> THEN <<>>
  ELSE With(TrimSpace(Head(list)), LAMBDA trimmed :
         (IF trimmed # <<>> THEN <<trimmed>> ELSE <<>>)
         \o ScalingItems(Tail(list)))

\* a decoder that takes every unsupported shape as an absent scaling
scalingListUnmarshalJSON_Lenient(data) ==
  [err |-> FALSE,
   s |-> IF data.kind = "str" /\ TrimSpace(data.str) # <<>>
           THEN <<TrimSpace(data.str)>> ELSE <<>>]

\* func (s *scalingList) UnmarshalJSON: [err, s]; a null element of a
\* []string decodes as ""
scalingListUnmarshalJSON(data) ==
  IF data.kind = "null" THEN [err |-> FALSE, s |-> <<>>]
  ELSE IF data.kind = "str"
    THEN With(TrimSpace(data.str), LAMBDA trimmed :
           [err |-> FALSE, s |-> IF trimmed # <<>> THEN <<trimmed>> ELSE <<>>])
  ELSE IF /\ data.kind = "arr"
          /\ \A i \in DOMAIN data.items : data.items[i].kind \in {"str", "null"}
    THEN [err |-> FALSE,
          s |-> ScalingItems([i \in DOMAIN data.items |->
                  IF data.items[i].kind = "str" THEN data.items[i].str
                  ELSE <<>>])]
  ELSE [err |-> TRUE, s |-> <<>>]

\* an accessor that returns the last element
Primary_Last(s) == IF Len(s) = 0 THEN <<>> ELSE s[Len(s)]

\* func (s scalingList) Primary
Primary(s) == IF Len(s) = 0 THEN <<>> ELSE s[1]

\* func (s scalingList) All
All(s) == s

\* json.Unmarshal into detailedAbilityVariable: [err, v]
DecodeDetailed(d) ==
  With(valueListUnmarshalJSON(d.values), LAMBDA vl :
  With(scalingListUnmarshalJSON(d.scaling), LAMBDA sl :
    [err |-> vl.err \/ sl.err,
     v |-> [Values |-> vl.v, Type |-> d.type, Scaling |-> sl.s,
            CSSClass |-> d.cssClass]]))

\* json.Unmarshal into setVariable: [err, v]
DecodeSetVariable(d) ==
  With(valueListUnmarshalJSON(d.value), LAMBDA vl :
    [err |-> vl.err, v |-> [Name |-> d.name, Value |-> vl.v]])

\* func (r *rawAbilityVariables) UnmarshalJSON: [err, r]; '{' decodes into
\* Map, '[' into List, anything else is ignored
rawAbilityVariablesUnmarshalJSON(data) ==
  IF data.kind = "map"
    THEN With([n \in DOMAIN data.map |-> DecodeDetailed(data.map[n])],
              LAMBDA m :
           [err |-> \E n \in DOMAIN m : m[n].err,
            r |-> [Map |-> [n \in DOMAIN m |-> m[n].v], List |-> <<>>]])
  ELSE IF data.kind = "list"
    THEN With([i \in DOMAIN data.list |-> DecodeSetVariable(data.list[i])],
              LAMBDA l :
           [err |-> \E i \in DOMAIN l : l[i].err,
            r |-> [Map |-> <<>>, List |-> [i \in DOMAIN l |-> l[i].v]]])
  ELSE [err |-> FALSE, r |-> [Map |-> <<>>, List |-> <<>>]]

\* json.Unmarshal into setAbility: [err, a]
DecodeSetAbility(j) ==
  With(rawAbilityVariablesUnmarshalJSON(j.variables), LAMBDA rv :
    [err |-> rv.err,
     a |-> [Name |-> j.name, Description |-> j.description,
            DescriptionRaw |-> j.descriptionRaw, Variables |-> rv.r]])

----------------------------------------------------------------------------
(* Ability adapter: ability_loader.go *)

\* an adapter that applies the Description Normalizer to every ability
AdaptedDescription_AlwaysNormalize(a) ==
  NonEmptyOr(normalizeDescription(a.Description), TrimSpace(a.Description))

\* adaptAbility, lines 10-24: the Description of the adapted Ability
AdaptedDescription(a) ==
  With(IF TrimSpace(a.Description) = <<>> /\ a.DescriptionRaw # <<>>
         THEN TrimSpace(a.DescriptionRaw)
         ELSE TrimSpace(a.Description), LAMBDA rawDesc :
    IF DOMAIN a.Variables.Map # {} THEN rawDesc
    ELSE With(NonEmptyOr(normalizeDescription(a.Description), rawDesc),
              LAMBDA desc :
           IF desc = <<>> /\ a.Description # <<>> THEN TrimSpace(a.Description)
           ELSE desc))

\* adaptAbility, lines 26-47: the variable map; a later list entry
\* overwrites an earlier one of the same name
AdaptedVariables(a) ==
  IF DOMAIN a.Variables.Map # {}
    THEN [name \in DOMAIN a.Variables.Map |->
           LET v == a.Variables.Map[name] IN
           [Name |-> TrimSpace(name),
            Type |-> TrimSpace(v.Type),
            Values |-> Numbers(v.Values),
            DisplayValues |-> Display(v.Values),
            Scaling |-> TrimSpace(Primary(v.Scaling)),
            Scalings |-> All(v.Scaling),
            CSSClass |-> TrimSpace(v.CSSClass)]]
    ELSE [name \in {a.Variables.List[i].Name : i \in DOMAIN a.Variables.List} |->
           LET last == CHOOSE i \in DOMAIN a.Variables.List :
                         /\ a.Variables.List[i].Name = name
                         /\ \A k \in DOMAIN a.Variables.List :
                              a.Variables.List[k].Name = name => k <= i
               v == a.Variables.List[last]
           IN [Name |-> TrimSpace(v.Name),
               Type |-> <<>>,
               Values |-> Numbers(v.Value),
               DisplayValues |-> Display(v.Value),
               Scaling |-> <<>>,
               Scalings |-> <<>>,
               CSSClass |-> <<>>]]

\* func adaptAbility
adaptAbility(a) ==
  [Name |-> TrimSpace(a.Name),
   Description |-> AdaptedDescription(a),
   DescriptionRaw |-> TrimSpace(a.DescriptionRaw),
   Variables |-> AdaptedVariables(a)]

----------------------------------------------------------------------------
(* Inputs: the ability of one champion of the set JSON *)

\* bounds of the input families
MaxItems == 2

MaxScalings == 3

MaxSegs == 2

MaxInner == 2

JNull == [kind |-> "null"]

JNum(n) == [kind |-> "num", num |-> n]

JStr(str) == [kind |-> "str", str |-> str]

JArr(items) == [kind |-> "arr", items |-> items]

JBool == [kind |-> "bool"]

JObj == [kind |-> "obj"]

JDetailed(values, type, scaling, cssClass) ==
  [values |-> values, type |-> type, scaling |-> scaling, cssClass |-> cssClass]

JMap(m) == [kind |-> "map", map |-> m]

JList(l) == [kind |-> "list", list |-> l]

JAbility(description, descriptionRaw, variables) ==
  [name |-> <<"N">>, description |-> description,
   descriptionRaw |-> descriptionRaw, variables |-> variables]

\* all sequences over S of length lo..hi
SeqsOf(S, lo, hi) == UNION {[1..n -> S] : n \in lo..hi}

\* concatenation of a sequence of strings
RECURSIVE Concat(_)
Concat(ss) == IF ss = <<>> THEN <<>> ELSE Head(ss) \o Concat(Tail(ss))

NameA == <<"A">>

NameB == <<"B">>

ValueItems ==
  {JNum(10), JNum(15), JStr(<<>>), JStr(<<"5","%">>), JStr(<<"<">>)}

\* "values": null, one number or string, or an array of them
ValueJsons ==
  {JNull} \cup ValueItems \cup {JArr(items) : items \in SeqsOf(ValueItems, 1, MaxItems)}

ScalingTags ==
  {<<>>, <<"A","P">>, <<" ","a",".","d"," ">>, <<"x">>, <<"<">>}

\* "scaling": null, one string, or an array of strings
ScalingJsons ==
  {JNull} \cup {JStr(t) : t \in ScalingTags}
  \cup {JArr([i \in DOMAIN ts |-> JStr(ts[i])]) : ts \in SeqsOf(ScalingTags, 1, MaxScalings)}

Delims == {<<"@", "@">>, <<"{", "}">>}

Suffixes ==
  {<<>>, <<".">> \o FieldValues, <<".">> \o FieldScaling, <<".">> \o FieldType,
   <<".", "x">>}

TokenText(d, name, suffix) == <<d[1]>> \o name \o suffix \o <<d[2]>>

InParens(t) == <<"(">> \o t \o <<")">>

\* one token naming A, every value shape
ValueFamily ==
  {JAbility(TokenText(d, NameA, sfx), <<>>,
            JMap(NameA :> JDetailed(v, type, JNull, <<>>))) :
     d \in Delims,
     sfx \in Suffixes \ {<<".">> \o FieldScaling},
     v \in ValueJsons,
     type \in {<<>>, <<"t">>}}

\* one scaling token naming A, bare or in parentheses, every scaling shape
ScalingFamily ==
  {JAbility(IF wrap THEN InParens(TokenText(d, NameA, <<".">> \o FieldScaling))
                    ELSE TokenText(d, NameA, <<".">> \o FieldScaling),
            <<>>,
            JMap(NameA :> JDetailed(JNull, <<>>, sc, css))) :
     d \in Delims,
     wrap \in BOOLEAN,
     sc \in ScalingJsons,
     css \in {<<>>, <<"c">>}}

\* one token naming A, every type and cssClass
ClassFamily ==
  {JAbility(IF wrap THEN InParens(TokenText(d, NameA, sfx))
                    ELSE TokenText(d, NameA, sfx),
            <<>>,
            JMap(NameA :> JDetailed(v, type, sc, css))) :
     d \in Delims,
     wrap \in BOOLEAN,
     sfx \in Suffixes \ {<<".">> \o FieldValues},
     v \in {JNull, JNum(10)},
     type \in {<<>>, <<"t">>, <<"<">>},
     sc \in {JNull, JStr(<<"A","P">>)},
     css \in {<<>>, <<"c">>, <<"\"">>, <<" ","c"," ">>}}

Segments ==
  {<<"@","A","@">>, <<"{","A","}">>, <<"@","B","@">>, <<"{","B",".","x","}">>,
   <<"{","A","*","1","0","0","}">>, <<"(">>, <<")">>, <<" ">>, <<"\n">>,
   <<"<">>, <<"@">>, <<"x">>}

\* variable sets of the structure families: none; A; A whose text value
\* reads as a token of B, and B
StructureVariables ==
  {JNull,
   JMap(NameA :> JDetailed(JNum(10), <<>>, JNull, <<>>)),
   JMap((NameA :> JDetailed(JStr(<<"{","B","}">>), <<>>, JNull, <<>>))
        @@ (NameB :> JDetailed(JNum(15), <<>>, JStr(<<"A","P">>), <<>>)))}

\* descriptions put together from up to MaxSegs segments
StructureFamily ==
  {JAbility(Concat(segs), <<>>, vs) :
     segs \in SeqsOf(Segments, 0, MaxSegs), vs \in StructureVariables}

InnerSegments ==
  {<<"@","A","@">>, <<"@","B","@">>, <<"{","A","}">>, <<"{","B","}">>,
   <<"@">>, <<" ">>, <<"x">>, <<"(">>}

\* one parenthetical with up to MaxInner segments inside
ParenFamily ==
  {JAbility(pre \o InParens(Concat(segs)) \o post, <<>>,
            JMap(NameA :> JDetailed(JNum(10), <<>>, JStr(<<"A","P">>), <<>>))) :
     pre \in {<<>>, <<"(">>, <<"@">>},
     post \in {<<>>, <<")">>},
     segs \in SeqsOf(InnerSegments, 0, MaxInner)}

\* a variable keyed by the empty name, with nothing in it
EmptyNameFamily ==
  {JAbility(desc, <<>>, JMap(<<>> :> JDetailed(v, <<>>, JNull, <<>>))) :
     desc \in {<<"{",".","}">>, <<"{",".","x","}">>, <<"{",".",".","}">>},
     v \in {JNull, JNum(10), JStr(<<>>)}}

DealsDamageToEnemies ==
  <<"d","e","a","l","s"," ","@","D","a","m","a","g","e","@"," ","t","o"," ","e","n","e","m","i","e","s">>

LegacyDescriptions ==
  {DealsDamageToEnemies,
   <<"@","A","*","1","0","0","@">>,
   <<"@","A","@">>,
   <<"<","b",">","@","A","@","<","/","b",">"," ","(","@","B","@",")">>,
   <<"@","A","@"," ","(",")"," ","k","e","y","w","o","r","d"," ","1">>,
   <<" ">>,
   <<>>}

\* the legacy list form of "variables"
LegacyFamily ==
  {JAbility(desc, raw, JList(l)) :
     desc \in LegacyDescriptions,
     raw \in {<<>>, <<"@","A","@">>},
     l \in {<<[name |-> NameA, value |-> JNum(10)]>>,
            <<[name |-> NameA, value |-> JNum(10)],
              [name |-> NameA, value |-> JArr(<<JNum(15), JStr(<<"5","%">>)>>)]>>}}

ProseSegments ==
  {<<"@","A","@">>, <<"@","A","*","1","0","0","@">>, <<"@","B","_","1","@">>,
   <<" ">>, <<"\n">>, <<"x">>}

\* legacy descriptions put together from tokens, white space and prose
ProseFamily ==
  {JAbility(Concat(segs), <<>>, JList(<<[name |-> NameA, value |-> JNum(10)]>>)) :
     segs \in SeqsOf(ProseSegments, 1, MaxSegs)}

\* legacy descriptions in which a later step of the normalizer puts together
\* what an earlier step looks for: a line break before an emptied
\* parenthetical, a double-brace token inside a word, " ()" inside a token
AssemblingDescriptions ==
  {<<"x","\n","(","%","i",":","s","%",")">>,
   <<"x"," ","k","e","y","{","{","c","}","}","w","o","r","d">>,
   <<"@","A"," ","(",")","@">>}

AssemblingFamily ==
  {JAbility(desc, <<>>, JList(<<[name |-> NameA, value |-> JNum(10)]>>)) :
     desc \in AssemblingDescriptions}

\* blank description, descriptionRaw in its place
RawFamily ==
  {JAbility(desc, raw, JMap(NameA :> JDetailed(JNum(10), <<>>, JNull, <<>>))) :
     desc \in {<<>>, <<" ">>},
     raw \in {<<>>, <<" ","{","A","}","\n">>, <<"(","@","A","@",")">>}}

\* shapes the decoders reject
RejectedFamily ==
  {JAbility(<<"{","A","}">>, <<>>, JMap(NameA :> d)) :
     d \in {JDetailed(JBool, <<>>, JNull, <<>>),
            JDetailed(JArr(<<>>), <<>>, JNull, <<>>),
            JDetailed(JNum(10), <<>>, JNum(10), <<>>)}}

DecodeItems ==
  {JNum(15), JNum(0), JStr(<<" ","5","%"," ">>), JStr(<<"1",".","5">>),
   JStr(<<"5"," ","%">>)}

\* "values" of every supported shape, with padded, suffixed and non-numeric
\* strings
DecodeFamily ==
  {JAbility(<<"{","A","}">>, <<>>,
            JMap(NameA :> JDetailed(v, <<>>, JNull, <<>>))) :
     v \in DecodeItems
           \cup {JArr(items) : items \in SeqsOf(DecodeItems, 1, MaxItems)}}

\* "values" and "scaling" of every JSON shape, supported or not
ShapeFamily ==
  {JAbility(<<"{","A","}">>, <<>>,
            JMap(NameA :> JDetailed(v, <<>>, sc, <<>>))) :
     v \in {JNull, JNum(10), JBool, JObj, JArr(<<JBool>>),
            JArr(<<JNum(10), JObj>>)},
     sc \in {JNull, JStr(<<"A","P">>), JNum(10), JBool, JObj, JArr(<<>>),
             JArr(<<JStr(<<"A","P">>), JNull>>),
             JArr(<<JStr(<<"A","P">>), JNum(10)>>),
             JArr(<<JBool>>)}}

PaddedNames == {<<" ","A">>, <<"A"," ">>, NameA}

\* variable names with white space around them, in both forms of "variables"
PaddedNameFamily ==
  {JAbility(<<"{","A","}">>, <<>>, vs) :
     vs \in {JMap(n :> JDetailed(JNum(10), <<>>, JNull, <<>>)) : n \in PaddedNames}
            \cup {JList(<<[name |-> n, value |-> JNum(10)]>>) : n \in PaddedNames}}

EndToEndDescription ==
  <<"D","e","a","l","s"," ","@","M","a","g","i","c","D","a","m","a","g","e","@"," ","m","a","g","i","c"," ","d","a","m","a","g","e"," ","(","@","S","c","a","l","i","n","g","@",")">>

NameMagicDamage == <<"M","a","g","i","c","D","a","m","a","g","e">>

\* the end-to-end scenario of the specification
EndToEndJson ==
  JAbility(EndToEndDescription, <<>>,
           JMap(NameMagicDamage :>
                  JDetailed(JArr(<<JNum(1000), JNum(1500), JNum(2000)>>), <<>>,
                            JStr(<<"A","P">>), <<>>)))

JsonInputs ==
  ValueFamily \cup ScalingFamily \cup ClassFamily \cup StructureFamily
  \cup ParenFamily \cup EmptyNameFamily \cup LegacyFamily \cup RawFamily
  \cup RejectedFamily \cup {EndToEndJson}
  \cup DecodeFamily \cup ShapeFamily \cup PaddedNameFamily \cup ProseFamily
  \cup AssemblingFamily

\* bound of the server: the requests in flight at one time
MaxRequests == 2

Requests == 1..MaxRequests

\* the set data file cannot be read
Unreadable == [readable |-> FALSE]

\* the set data file holds one champion with this ability
SetFile(j) == [readable |-> TRUE, json |-> j]

\* the contents the set data file takes: unreadable, the end-to-end ability,
\* an ability with a scaling token in parentheses, one without description,
\* and one the decoders reject
DiskContents ==
  {Unreadable,
   SetFile(EndToEndJson),
   SetFile(JAbility(<<"x","(","@","A",".","s","c","a","l","i","n","g","@",")","\n","{","A","}">>,
                    <<>>,
                    JMap(NameA :> JDetailed(JNum(10), <<>>, JStr(<<"A","P">>), <<>>)))),
   SetFile(JAbility(<<>>, <<>>, JNull)),
   SetFile(JAbility(<<"{","A","}">>, <<>>,
                    JMap(NameA :> JDetailed(JBool, <<>>, JNull, <<>>))))}

----------------------------------------------------------------------------
(* The state machine *)

NoAbility ==
  [Name |-> <<>>, Description |-> <<>>, DescriptionRaw |-> <<>>,
   Variables |-> <<>>]

\* a request that has not reached the handler
IdleRequest ==
  [pc |-> "idle", got |-> [data |-> <<>>, err |-> FALSE], units |-> <<>>,
   escaped |-> <<>>, withParen |-> <<>>, withAtTokens |-> <<>>,
   withBraceTokens |-> <<>>, page |-> <<>>]

\* the process before main runs
ServerNotStarted ==
  /\ server = "starting"
  /\ once = "fresh"
  /\ loaderData = <<>>
  /\ loadErr = FALSE
  /\ loads = 0
  /\ req = [r \in Requests |-> IdleRequest]

\* no ability in the pipeline
\* the unit loader before load is called
LoaderNotStarted ==
  /\ setFile = Unreadable
  /\ unitDir = <<>>
  /\ unitImages = <<>>
  /\ units = <<>>
  /\ chIndex = 0
  /\ loadPc = "start"

\* the middleware before a request: nothing written, no header set
GzipIdle ==
  /\ written = 0
  /\ wHeader = [ContentEncoding |-> <<>>, Vary |-> <<>>]
  /\ wBody = <<>>
  /\ gzw = <<>>
  /\ gzPc = "start"

\* no request at the middleware
GzipNotStarted ==
  /\ rq = [Method |-> "GET", AcceptEncoding |-> <<>>, Path |-> <<"/">>]
  /\ nextWrites = <<>>
  /\ GzipIdle

\* the page before tooltip-floating-ui.js has run
TooltipsNotStarted ==
  /\ tooltipStates = <<>>
  /\ hoveredContainers = {}
  /\ activePointerContainer = 0
  /\ activePointerId = 0
  /\ timers = <<>>
  /\ pointerAt = <<>>
  /\ pointerCapture = <<>>
  /\ focus = [c |-> 0, inTooltip |-> FALSE]
  /\ quiet = <<>>

\* the page before search-filter.js has run
FilterNotStarted ==
  /\ elements = <<>>
  /\ criteria = [query |-> <<>>, selectedCosts |-> {}, unlockOnly |-> FALSE]
  /\ filtered = [visible |-> <<>>, hidden |-> <<>>, count |-> 0]
  /\ filterPc = "start"

PipelineEmpty ==
  /\ pc = "json"
  /\ ability = NoAbility
  /\ escaped = <<>>
  /\ withParen = <<>>
  /\ withAtTokens = <<>>
  /\ withBraceTokens = <<>>
  /\ out = <<>>

Init ==
  /\ json \in JsonInputs
  /\ PipelineEmpty
  /\ disk = Unreadable
  /\ ServerNotStarted
  /\ LoaderNotStarted
  /\ GzipNotStarted
  /\ TooltipsNotStarted
  /\ FilterNotStarted

\* loadFromDisk: json.Unmarshal succeeds and the champion's ability is adapted
Load ==
  /\ pc = "json"
  /\ ~DecodeSetAbility(json).err
  /\ ability' = adaptAbility(DecodeSetAbility(json).a)
  /\ pc' = "loaded"
  /\ UNCHANGED <<json, escaped, withParen, withAtTokens, withBraceTokens, out>>
  /\ UNCHANGED outsidePipeline

\* loadFromDisk: json.Unmarshal fails, nothing is published
LoadFails ==
  /\ pc = "json"
  /\ DecodeSetAbility(json).err
  /\ pc' = "failed"
  /\ UNCHANGED <<json, ability, escaped, withParen, withAtTokens,
                 withBraceTokens, out>>
  /\ UNCHANGED outsidePipeline

\* func FormatAbilityDescription, with an empty description
FormatEmpty ==
  /\ pc = "loaded"
  /\ ChosenDescription(ability) = <<>>
  /\ out' = <<>>
  /\ pc' = "formatted"
  /\ UNCHANGED <<json, ability, escaped, withParen, withAtTokens,
                 withBraceTokens>>
  /\ UNCHANGED outsidePipeline

\* func FormatAbilityDescription; the variables keep its locals
Format ==
  /\ pc = "loaded"
  /\ ChosenDescription(ability) # <<>>
  /\ escaped' = EscapeString(ChosenDescription(ability))
  /\ withParen' = replaceParenthesizedTokens(escaped', ability.Variables)
  /\ withAtTokens' = replaceAbilityTokens(withParen', ability.Variables, "at")
  /\ withBraceTokens' =
       replaceAbilityTokens(withAtTokens', ability.Variables, "brace")
  /\ out' = FinishOutput(withBraceTokens')
  /\ pc' = "formatted"
  /\ UNCHANGED <<json, ability>>
  /\ UNCHANGED outsidePipeline

Next == Load \/ LoadFails \/ FormatEmpty \/ Format

Spec == Init /\ [][Next]_vars

----------------------------------------------------------------------------
(* The server: main, NewRouterWithDeps, the handler of NewHandler and *)
(* LocalUnitsLoader.LoadUnits, with the requests served concurrently *)

ServerInit ==
  /\ json = EndToEndJson
  /\ PipelineEmpty
  /\ disk \in DiskContents
  /\ ServerNotStarted
  /\ LoaderNotStarted
  /\ GzipNotStarted
  /\ TooltipsNotStarted
  /\ FilterNotStarted

\* the set data file is rewritten, or becomes unreadable, while the process runs
DiskChanges ==
  /\ disk' \in DiskContents \ {disk}
  /\ UNCHANGED <<server, once, loaderData, loadErr, loads, req>>
  /\ UNCHANGED outsideServer

\* main: NewRouter returns the handler and the server starts; the set data
\* is not read here
RouterReady ==
  /\ server = "starting"
  /\ server' = "serving"
  /\ UNCHANGED <<disk, once, loaderData, loadErr, loads, req>>
  /\ UNCHANGED outsideServer

\* main: deps.Templates.Load fails, NewRouter returns the error, log.Fatalf
RouterFails ==
  /\ server = "starting"
  /\ server' = "fatal"
  /\ UNCHANGED <<disk, once, loaderData, loadErr, loads, req>>
  /\ UNCHANGED outsideServer

\* the handler is called for a request and calls loader.LoadUnits
Arrive(r) ==
  /\ server = "serving"
  /\ req[r].pc = "idle"
  /\ req' = [req EXCEPT ![r].pc = "once"]
  /\ UNCHANGED <<disk, server, once, loaderData, loadErr, loads>>
  /\ UNCHANGED outsideServer

\* a Do of the same Once that starts as well while the first one runs
OnceMayRun_Unguarded(o) == o # "done"

\* sync.Once: Do calls the function only if no Do of this Once has
OnceMayRun(o) == o = "fresh"

\* l.once.Do, first call: this request runs the function
OnceDoRuns(r) ==
  /\ req[r].pc = "once"
  /\ OnceMayRun(once)
  /\ once' = "running"
  /\ req' = [req EXCEPT ![r].pc = "load"]
  /\ UNCHANGED <<disk, server, loaderData, loadErr, loads>>
  /\ UNCHANGED outsideServer

\* l.once.Do, later call: returns once the first call has returned, and
\* waits while it runs
OnceDoReturns(r) ==
  /\ req[r].pc = "once"
  /\ once = "done"
  /\ req' = [req EXCEPT ![r].pc = "return"]
  /\ UNCHANGED <<disk, server, once, loaderData, loadErr, loads>>
  /\ UNCHANGED outsideServer

\* l.data, l.loadErr = l.loadFromDisk(): os.ReadFile or json.Unmarshal
\* fails, or the champion is adapted; then Do returns
LoadFromDisk(r) ==
  /\ req[r].pc = "load"
  /\ IF disk.readable /\ ~DecodeSetAbility(disk.json).err
       THEN /\ loaderData' = <<adaptAbility(DecodeSetAbility(disk.json).a)>>
            /\ loadErr' = FALSE
       ELSE /\ loaderData' = <<>>
            /\ loadErr' = TRUE
  /\ loads' = loads + 1
  /\ once' = "done"
  /\ req' = [req EXCEPT ![r].pc = "return"]
  /\ UNCHANGED <<disk, server>>
  /\ UNCHANGED outsideServer

\* return l.data, l.loadErr; the handler logs an error and renders an empty
\* list of units in place of the data
ReturnUnits(r) ==
  /\ req[r].pc = "return"
  /\ req' = [req EXCEPT ![r].pc = "render",
                        ![r].got = [data |-> loaderData, err |-> loadErr],
                        ![r].units = IF loadErr THEN <<>> ELSE loaderData]
  /\ UNCHANGED <<disk, server, once, loaderData, loadErr, loads>>
  /\ UNCHANGED outsideServer

\* a local of another invocation read in place of the invocation's own
Local_OfFirstRequest(q, r, name) == q[1][name]

\* a local variable of the invocation of FormatAbilityDescription for r
Local(q, r, name) == q[r][name]

\* templates.ExecuteTemplate with no unit: formatAbility is not called
RenderNoUnits(r) ==
  /\ req[r].pc = "render"
  /\ req[r].units = <<>>
  /\ req' = [req EXCEPT ![r].pc = "write", ![r].page = <<>>]
  /\ UNCHANGED <<disk, server, once, loaderData, loadErr, loads>>
  /\ UNCHANGED outsideServer

\* formatAbility: FormatAbilityDescription returns "" for an empty
\* description, and escapes the description otherwise
FormatBegin(r) ==
  /\ req[r].pc = "render"
  /\ req[r].units # <<>>
  /\ IF ChosenDescription(req[r].units[1]) = <<>>
       THEN req' = [req EXCEPT ![r].pc = "write", ![r].page = << <<>> >>]
       ELSE req' = [req EXCEPT ![r].pc = "paren",
                              ![r].escaped =
                                EscapeString(ChosenDescription(req[r].units[1]))]
  /\ UNCHANGED <<disk, server, once, loaderData, loadErr, loads>>
  /\ UNCHANGED outsideServer

\* withParen := replaceParenthesizedTokens(escaped, ability.Variables)
FormatParen(r) ==
  /\ req[r].pc = "paren"
  /\ req' = [req EXCEPT ![r].pc = "at",
                        ![r].withParen =
                          replaceParenthesizedTokens(Local(req, r, "escaped"),
                                                     req[r].units[1].Variables)]
  /\ UNCHANGED <<disk, server, once, loaderData, loadErr, loads>>
  /\ UNCHANGED outsideServer

\* withAtTokens := replaceAbilityTokens(withParen, ..., abilityAtTokenRe)
FormatAtTokens(r) ==
  /\ req[r].pc = "at"
  /\ req' = [req EXCEPT ![r].pc = "brace",
                        ![r].withAtTokens =
                          replaceAbilityTokens(Local(req, r, "withParen"),
                                               req[r].units[1].Variables, "at")]
  /\ UNCHANGED <<disk, server, once, loaderData, loadErr, loads>>
  /\ UNCHANGED outsideServer

\* withBraceTokens := replaceAbilityTokens(withAtTokens, ..., abilityBraceTokenRe)
FormatBraceTokens(r) ==
  /\ req[r].pc = "brace"
  /\ req' = [req EXCEPT ![r].pc = "finish",
                        ![r].withBraceTokens =
                          replaceAbilityTokens(Local(req, r, "withAtTokens"),
                                               req[r].units[1].Variables, "brace")]
  /\ UNCHANGED <<disk, server, once, loaderData, loadErr, loads>>
  /\ UNCHANGED outsideServer

\* the line breaks, the trim and the return of FormatAbilityDescription
FormatFinish(r) ==
  /\ req[r].pc = "finish"
  /\ req' = [req EXCEPT ![r].pc = "write",
                        ![r].page =
                          <<FinishOutput(Local(req, r, "withBraceTokens"))>>]
  /\ UNCHANGED <<disk, server, once, loaderData, loadErr, loads>>
  /\ UNCHANGED outsideServer

\* w.Write(buf.Bytes()): the page is sent
Respond(r) ==
  /\ req[r].pc = "write"
  /\ req' = [req EXCEPT ![r].pc = "responded"]
  /\ UNCHANGED <<disk, server, once, loaderData, loadErr, loads>>
  /\ UNCHANGED outsideServer

\* the goroutine of the request ends; the server takes the next request
NextRequest(r) ==
  /\ req[r].pc = "responded"
  /\ req' = [req EXCEPT ![r] = IdleRequest]
  /\ UNCHANGED <<disk, server, once, loaderData, loadErr, loads>>
  /\ UNCHANGED outsideServer

ServerNext ==
  \/ DiskChanges
  \/ RouterReady
  \/ RouterFails
  \/ \E r \in Requests :
       \/ Arrive(r)
       \/ OnceDoRuns(r)
       \/ OnceDoReturns(r)
       \/ LoadFromDisk(r)
       \/ ReturnUnits(r)
       \/ RenderNoUnits(r)
       \/ FormatBegin(r)
       \/ FormatParen(r)
       \/ FormatAtTokens(r)
       \/ FormatBraceTokens(r)
       \/ FormatFinish(r)
       \/ Respond(r)
       \/ NextRequest(r)

SpecServer == ServerInit /\ [][ServerNext]_vars

----------------------------------------------------------------------------
(* The unit loader: LocalUnitsLoader.load, AssetIndexer.Index, adaptChampion *)
(* and sortUnitsByCostAndName.  A champion keeps the fields that decide its  *)
(* image and its place in the dataset: name, apiName, cost and the upstream  *)
(* portrait; traits, ability and stats are copied to the unit and decide     *)
(* neither.                                                                  *)

\* the bytes of the model, in increasing order
ByteOrder ==
  <<" ", "'", ".", "/">> \o DigitSeq \o UpperSeq \o <<"_">> \o LowerSeq

ByteRank(c) == CHOOSE i \in DOMAIN ByteOrder : ByteOrder[i] = c

\* Go's a < b on strings: bytewise, a proper prefix is smaller
RECURSIVE StringLess(_, _)
StringLess(a, b) ==
  IF b = <<>> THEN FALSE
  ELSE IF a = <<>> THEN TRUE
  ELSE IF Head(a) = Head(b) THEN StringLess(Tail(a), Tail(b))
  ELSE ByteRank(Head(a)) < ByteRank(Head(b))

\* func unitSlug: lower case, letters and digits only
RECURSIVE unitSlug(_)
unitSlug(name) ==
  IF name = <<>> THEN <<>>
  ELSE IF ToLower(Head(name)) \in LowerSet \cup DigitSet
    THEN <<ToLower(Head(name))>> \o unitSlug(Tail(name))
    ELSE unitSlug(Tail(name))

\* filepath.Ext: from the last dot of the last element of the path on, ""
\* when that element has no dot
RECURSIVE ExtFrom(_, _)
ExtFrom(path, i) ==
  IF i < 1 \/ path[i] = "/" THEN <<>>
  ELSE IF path[i] = "." THEN SubSeq(path, i, Len(path))
  ELSE ExtFrom(path, i - 1)

Ext(path) == ExtFrom(path, Len(path))

\* AssetIndexer.Index, the base of one file name: the extension is trimmed,
\* then the name is cut at its first dot unless that dot is its first byte
IndexBase(name) ==
  With(SubSeq(name, 1, Len(name) - Len(Ext(name))),
       LAMBDA base :
         IF IndexFrom(base, 1, ".") > 1
           THEN SubSeq(base, 1, IndexFrom(base, 1, ".") - 1)
           ELSE base)

\* a Go map[string]string; a missing key reads as ""
MapGet(m, k) == IF k \in DOMAIN m THEN m[k] ELSE <<>>

MapPut(m, k, v) == [x \in DOMAIN m \cup {k} |-> IF x = k THEN v ELSE m[x]]

\* filepath.ToSlash(filepath.Join(dir, name))
JoinPath(dir, name) == dir \o <<"/">> \o name

\* AssetIndexer.Index with SlugFunc unitSlug and no FilterExt, over the
\* entries of os.ReadDir (sorted by name): directories are passed over, a
\* later file with the same key replaces an earlier one
RECURSIVE IndexEntries(_, _, _)
IndexEntries(dir, entries, m) ==
  IF entries = <<>> THEN m
  ELSE IF Head(entries).IsDir THEN IndexEntries(dir, Tail(entries), m)
  ELSE IndexEntries(dir, Tail(entries),
         MapPut(m, unitSlug(IndexBase(Head(entries).Name)),
                JoinPath(dir, Head(entries).Name)))

Index(dir, entries) == IndexEntries(dir, entries, <<>>)

defaultUnitDir == <<"static/assets/Units/SET16">>

EmptyUnit == [Name |-> <<>>, Cost |-> 0, URL |-> <<>>]

\* adaptChampion, lines 12-17 and 48-50: the local image under the name slug,
\* else under the apiName slug, else the upstream portrait
ChampionURL(ch, images) ==
  NonEmptyOr(MapGet(images, unitSlug(TrimSpace(ch.Name))),
    NonEmptyOr(MapGet(images, unitSlug(ch.APIName)), ch.Portrait))

\* adaptChampion without its last test: the unit is kept whatever its URL
adaptChampion_NeverSkips(ch, images) ==
  [ok |-> TRUE,
   unit |-> [Name |-> TrimSpace(ch.Name), Cost |-> ch.Cost,
             URL |-> ChampionURL(ch, images)]]

\* func adaptChampion
adaptChampion(ch, images) ==
  IF ChampionURL(ch, images) = <<>>
    THEN [ok |-> FALSE, unit |-> EmptyUnit]
    ELSE [ok |-> TRUE,
          unit |-> [Name |-> TrimSpace(ch.Name), Cost |-> ch.Cost,
                    URL |-> ChampionURL(ch, images)]]

\* the comparison without its second key
lessByCostAndName_CostOnly(a, b) == a.Cost < b.Cost

\* sortUnitsByCostAndName, the less function
lessByCostAndName(a, b) ==
  IF a.Cost # b.Cost THEN a.Cost < b.Cost ELSE StringLess(a.Name, b.Name)

\* a stable insertion: u goes before the first unit it is less than
RECURSIVE InsertStable(_, _)
InsertStable(sorted, u) ==
  IF sorted = <<>> THEN <<u>>
  ELSE IF lessByCostAndName(u, Head(sorted)) THEN <<u>> \o sorted
  ELSE <<Head(sorted)>> \o InsertStable(Tail(sorted), u)

\* sort.SliceStable with lessByCostAndName
RECURSIVE sortUnitsByCostAndName(_)
sortUnitsByCostAndName(us) ==
  IF us = <<>> THEN <<>>
  ELSE InsertStable(sortUnitsByCostAndName(SubSeq(us, 1, Len(us) - 1)),
                    us[Len(us)])

\* Inputs: the champions of the set file and the entries of the unit directory

MaxChampions == 2

Champion(n, api, c, p) == [Name |-> n, APIName |-> api, Cost |-> c, Portrait |-> p]

NameAhri == <<"A","h","r","i">>

NameZoe == <<"Z","o","e">>

NameKaiSa == <<" ","K","a","i","'","S","a">>

ApiOf(n) == <<"T","_">> \o unitSlug(n)

Portraits == {<<>>, <<"cdn/portrait.png">>}

Champions ==
  {Champion(n, ApiOf(n), c, p) :
     n \in {NameAhri, NameZoe, NameKaiSa}, c \in {1, 2}, p \in Portraits}

File(n) == [Name |-> n, IsDir |-> FALSE]

Dir(n) == [Name |-> n, IsDir |-> TRUE]

\* listings of the unit directory, sorted by name as os.ReadDir returns them
UnitDirs ==
  { <<>>,
    <<File(<<"A","h","r","i",".","j","p","g">>)>>,
    <<File(<<"K","a","i","S","a",".","C","j",".","j","p","g">>),
      File(<<"R","E","A","D","M","E">>),
      File(<<"T","_","z","o","e",".","p","n","g">>)>>,
    <<File(<<".","k","e","e","p">>), Dir(NameAhri), Dir(NameZoe)>> }

ChampionLists == UNION {[1..n -> Champions] : n \in 0..MaxChampions}

SetFiles == {Unreadable} \cup {[readable |-> TRUE, champions |-> l] : l \in ChampionLists}

LoaderInit ==
  /\ setFile \in SetFiles
  /\ unitDir \in UnitDirs
  /\ unitImages = <<>>
  /\ units = <<>>
  /\ chIndex = 0
  /\ loadPc = "start"
  /\ json = EndToEndJson
  /\ PipelineEmpty
  /\ disk = Unreadable
  /\ ServerNotStarted
  /\ GzipNotStarted
  /\ TooltipsNotStarted
  /\ FilterNotStarted

\* load, line 74: readSetFile succeeds
ReadSetFile ==
  /\ loadPc = "start"
  /\ setFile.readable
  /\ loadPc' = "assets"
  /\ UNCHANGED <<setFile, unitDir, unitImages, units, chIndex>>
  /\ UNCHANGED outsideLoader

\* load, lines 75-77: readSetFile fails and load returns the error
ReadSetFileFails ==
  /\ loadPc = "start"
  /\ ~setFile.readable
  /\ loadPc' = "failed"
  /\ UNCHANGED <<setFile, unitDir, unitImages, units, chIndex>>
  /\ UNCHANGED outsideLoader

\* load, line 79, and adaptChampions, line 109
BuildAssetMaps ==
  /\ loadPc = "assets"
  /\ unitImages' = Index(defaultUnitDir, unitDir)
  /\ units' = <<>>
  /\ chIndex' = 1
  /\ loadPc' = "adapt"
  /\ UNCHANGED <<setFile, unitDir>>
  /\ UNCHANGED outsideLoader

\* adaptChampions, one turn of the loop: the champion is kept or passed over
AdaptNextChampion ==
  /\ loadPc = "adapt"
  /\ chIndex <= Len(setFile.champions)
  /\ units' = IF adaptChampion(setFile.champions[chIndex], unitImages).ok
                THEN Append(units,
                       adaptChampion(setFile.champions[chIndex], unitImages).unit)
                ELSE units
  /\ chIndex' = chIndex + 1
  /\ UNCHANGED <<setFile, unitDir, unitImages, loadPc>>
  /\ UNCHANGED outsideLoader

\* load, lines 81-83: the units are sorted and returned
SortAndReturn ==
  /\ loadPc = "adapt"
  /\ chIndex > Len(setFile.champions)
  /\ units' = sortUnitsByCostAndName(units)
  /\ loadPc' = "done"
  /\ UNCHANGED <<setFile, unitDir, unitImages, chIndex>>
  /\ UNCHANGED outsideLoader

LoaderNext ==
  \/ ReadSetFile
  \/ ReadSetFileFails
  \/ BuildAssetMaps
  \/ AdaptNextChampion
  \/ SortAndReturn

SpecLoader == LoaderInit /\ [][LoaderNext]_vars

----------------------------------------------------------------------------
(* The Gzip middleware: middleware.Gzip around a handler that writes its    *)
(* body in chunks.  The output of the gzip writer is one element, the       *)
(* stream holding the bytes written to it.                                  *)

\* strings.Contains
StringsContains(s, sub) == \E i \in 1..(Len(s) + 1) : HasPrefixAt(s, i, sub)

\* strings.ToLower
StringsToLower(s) == [i \in DOMAIN s |-> ToLower(s[i])]

\* http.Header.Get: the first value of the key, "" when the key is absent
HeaderGet(values) == IF values = <<>> THEN <<>> ELSE values[1]

CompressibleExts ==
  { <<".","h","t","m","l">>, <<".","h","t","m">>, <<".","c","s","s">>,
    <<".","j","s">>, <<".","m","j","s">>, <<".","j","s","o","n">>,
    <<".","m","a","p">>, <<".","s","v","g">>, <<".","t","x","t">> }

\* func isCompressiblePath; the extensions of the second case are not the
\* empty string, so they fall together with the default
isCompressiblePath(path) ==
  With(StringsToLower(Ext(path)),
       LAMBDA ext : ext \in CompressibleExts \/ ext = <<>>)

Lit_gzip == <<"g","z","i","p">>

\* shouldCompress without its test of the method
shouldCompress_AnyMethod(r) ==
  /\ StringsContains(HeaderGet(r.AcceptEncoding), Lit_gzip)
  /\ isCompressiblePath(r.Path)

\* func shouldCompress
shouldCompress(r) ==
  /\ r.Method # "HEAD"
  /\ StringsContains(HeaderGet(r.AcceptEncoding), Lit_gzip)
  /\ isCompressiblePath(r.Path)

\* what gzip.Writer has sent to the response once it is closed
GzipStream(bytes) == [gzip |-> bytes]

\* Inputs: the request, and the chunks the wrapped handler writes

MaxWrites == 2

Methods == {"GET", "HEAD", "POST"}

AcceptEncodings ==
  { <<>>,
    << Lit_gzip >>,
    << <<"b","r">> >>,
    << <<"b","r",","," ">> \o Lit_gzip >>,
    << <<"G","Z","I","P">> >>,
    << <<"b","r">>, Lit_gzip >> }

Slash == <<"/">>

Paths ==
  { Slash,
    Slash \o <<"a","p","i","/","u">>,
    Slash \o <<"v","1",".","2","/","u">>,
    Slash \o <<"f",".">>,
    Slash \o <<"d",".","p","d","f">>,
    Slash \o <<"p",".","p","n","g">>,
    Slash \o <<"I",".","H","T","M">> }
    \cup {Slash \o <<"x">> \o e : e \in CompressibleExts}

Chunks == { <<"H","i">>, <<"!">> }

GzipRequests ==
  [Method : Methods, AcceptEncoding : AcceptEncodings, Path : Paths]

GzipInit ==
  /\ rq \in GzipRequests
  /\ nextWrites \in SeqsOf(Chunks, 0, MaxWrites)
  /\ GzipIdle
  /\ json = EndToEndJson
  /\ PipelineEmpty
  /\ disk = Unreadable
  /\ ServerNotStarted
  /\ LoaderNotStarted
  /\ TooltipsNotStarted
  /\ FilterNotStarted

\* Gzip, lines 16-17: the request is handed to the wrapped handler as it is
PassThrough ==
  /\ gzPc = "start"
  /\ ~shouldCompress(rq)
  /\ gzPc' = "plain"
  /\ UNCHANGED <<rq, nextWrites, written, wHeader, wBody, gzw>>
  /\ UNCHANGED outsideGzip

\* Gzip, lines 21-31: the headers are set and the writer is wrapped
BeginGzip ==
  /\ gzPc = "start"
  /\ shouldCompress(rq)
  /\ wHeader' = [ContentEncoding |-> Lit_gzip,
                 Vary |-> Append(wHeader.Vary, "Accept-Encoding")]
  /\ gzw' = <<>>
  /\ gzPc' = "gzip"
  /\ UNCHANGED <<rq, nextWrites, written, wBody>>
  /\ UNCHANGED outsideGzip

\* the wrapped handler writes a chunk to the http.ResponseWriter it was given
WritePlain ==
  /\ gzPc = "plain"
  /\ written < Len(nextWrites)
  /\ wBody' = wBody \o nextWrites[written + 1]
  /\ written' = written + 1
  /\ UNCHANGED <<rq, nextWrites, wHeader, gzw, gzPc>>
  /\ UNCHANGED outsideGzip

\* gzipResponseWriter.Write: the chunk goes to the gzip writer
WriteGzip ==
  /\ gzPc = "gzip"
  /\ written < Len(nextWrites)
  /\ gzw' = gzw \o nextWrites[written + 1]
  /\ written' = written + 1
  /\ UNCHANGED <<rq, nextWrites, wHeader, wBody, gzPc>>
  /\ UNCHANGED outsideGzip

\* the wrapped handler returns, Gzip returns after it (line 18)
ReturnPlain ==
  /\ gzPc = "plain"
  /\ written = Len(nextWrites)
  /\ gzPc' = "done"
  /\ UNCHANGED <<rq, nextWrites, written, wHeader, wBody, gzw>>
  /\ UNCHANGED outsideGzip

\* the wrapped handler returns and the deferred gzw.Close() of line 25 runs
CloseGzip ==
  /\ gzPc = "gzip"
  /\ written = Len(nextWrites)
  /\ wBody' = Append(wBody, GzipStream(gzw))
  /\ gzPc' = "done"
  /\ UNCHANGED <<rq, nextWrites, written, wHeader, gzw>>
  /\ UNCHANGED outsideGzip

GzipNext ==
  \/ PassThrough
  \/ BeginGzip
  \/ WritePlain
  \/ WriteGzip
  \/ ReturnPlain
  \/ CloseGzip

SpecGzip == GzipInit /\ [][GzipNext]_vars

----------------------------------------------------------------------------
(* The tooltips: static/js/tooltip-floating-ui.js (the module version, lines  *)
(* 1-314) over static/js/modules/tooltip-state.js.  A container and its       *)
(* tooltip card, which is a descendant of the container, share one number.    *)
(* The handlers are operators on the state of the page, st: the TooltipState  *)
(* of every tooltip, the hovered containers, the active pointer capture and   *)
(* the browser's pending timers.  A timeout field is "null", "pending" (the   *)
(* id of a timer that has not fired) or "fired" (the id of one that has).     *)
(* The handlers change the classes, the display and the position of the card  *)
(* as well, which no handler reads back; these are left out.                  *)

MaxContainers == 2

MaxPointers == 2

Containers == 1..MaxContainers

Pointers == 1..MaxPointers

\* getState, lines 33-38: the state a tooltip starts with
NewTooltipState ==
  [status |-> "hidden", showTimeout |-> "null", lockTimeout |-> "null",
   isDisabled |-> FALSE]

NoTimers == [showTimeout |-> 0, lockTimeout |-> 0]

\* the state of the page as the handlers see it
Page ==
  [tooltipStates |-> tooltipStates,
   hoveredContainers |-> hoveredContainers,
   activePointerContainer |-> activePointerContainer,
   activePointerId |-> activePointerId,
   timers |-> timers]

\* clearTimeout(state[field]): cancels the timer if it is still pending
clearTimeout(st, t, field) ==
  IF st.tooltipStates[t][field] = "pending"
    THEN [st EXCEPT !.timers[t][field] = @ - 1]
    ELSE st

\* state[field] = setTimeout(...)
setTimeout(st, t, field) ==
  [st EXCEPT !.timers[t][field] = @ + 1,
             !.tooltipStates[t][field] = "pending"]

\* clearTimers of tooltip-state.js
clearTimers(st, t) ==
  With(clearTimeout(clearTimeout(st, t, "showTimeout"), t, "lockTimeout"),
       LAMBDA s1 : [s1 EXCEPT !.tooltipStates[t].showTimeout = "null",
                              !.tooltipStates[t].lockTimeout = "null"])

\* showTooltip that leaves the pending timers alone
showTooltip_KeepTimers(st, t) ==
  IF st.activePointerContainer # 0 \/ st.tooltipStates[t].isDisabled
    THEN st
    ELSE setTimeout(st, t, "showTimeout")

\* function showTooltip, up to the setTimeout
showTooltip(st, t) ==
  IF st.activePointerContainer # 0 \/ st.tooltipStates[t].isDisabled
    THEN st
    ELSE setTimeout(clearTimers(st, t), t, "showTimeout")

\* function hideTooltip
hideTooltip(st, t) ==
  [clearTimers(st, t) EXCEPT !.tooltipStates[t].status = "hidden"]

\* function startLockCountdown
startLockCountdown(st, t) ==
  setTimeout(clearTimeout(st, t, "lockTimeout"), t, "lockTimeout")

\* the callback of showTooltip's timer without its test
showCallback_Unguarded(st, t) ==
  startLockCountdown([st EXCEPT !.tooltipStates[t].status = "following"], t)

\* the callback of showTooltip's timer, lines 48-71
showCallback(st, t) ==
  IF st.activePointerContainer # 0 \/ st.tooltipStates[t].isDisabled
    THEN st
    ELSE startLockCountdown(
           [st EXCEPT !.tooltipStates[t].status = "following"], t)

\* function lockTooltip
lockTooltip(st, t) ==
  IF st.tooltipStates[t].status = "hidden" THEN st
  ELSE [clearTimeout(st, t, "lockTimeout")
          EXCEPT !.tooltipStates[t].status = "locked",
                 !.tooltipStates[t].lockTimeout = "null"]

clearActivePointer(st) ==
  [st EXCEPT !.activePointerContainer = 0, !.activePointerId = 0]

\* bindContainerEvents: pointerenter
onPointerEnter(st, c) ==
  With([st EXCEPT !.hoveredContainers = @ \cup {c}],
       LAMBDA s1 : IF s1.activePointerContainer = 0
                     THEN showTooltip(s1, c)
                     ELSE s1)

\* bindContainerEvents: pointerleave
onPointerLeave(st, c, relatedInTooltip) ==
  With([st EXCEPT !.hoveredContainers = @ \ {c}],
       LAMBDA s1 :
         IF s1.tooltipStates[c].status = "locked" /\ relatedInTooltip THEN s1
         ELSE IF s1.activePointerContainer = c THEN s1
         ELSE hideTooltip(s1, c))

\* bindContainerEvents: pointerdown outside the tooltip, main button
onPointerDown(st, c, p) ==
  hideTooltip([st EXCEPT !.activePointerContainer = c,
                         !.activePointerId = p], c)

\* bindContainerEvents: pointerup
onPointerUp(st, c, p) ==
  IF st.activePointerContainer # c THEN st
  ELSE IF p # st.activePointerId THEN st
  ELSE IF st.tooltipStates[c].isDisabled THEN clearActivePointer(st)
  ELSE IF c \in st.hoveredContainers
    THEN showTooltip(clearActivePointer(st), c)
    ELSE clearActivePointer(st)

\* bindContainerEvents: lostpointercapture
onLostPointerCapture(st, c, p) ==
  IF st.activePointerContainer = c /\ p = st.activePointerId
    THEN clearActivePointer(st)
    ELSE st

\* bindContainerEvents: focus, in the capture phase
onFocus(st, c) == showTooltip(st, c)

\* bindContainerEvents: blur, in the capture phase
onBlur(st, c, relatedInTooltip) ==
  IF ~relatedInTooltip THEN hideTooltip(st, c) ELSE st

\* bindTooltipEvents: pointerdown on the tooltip
onTooltipPointerDown(st, c) ==
  IF st.tooltipStates[c].status # "locked" THEN lockTooltip(st, c) ELSE st

\* bindTooltipEvents: pointerleave of the tooltip
onTooltipPointerLeave(st, c, relatedInContainer) ==
  IF relatedInContainer THEN st
  ELSE IF st.tooltipStates[c].status = "locked" THEN hideTooltip(st, c)
  ELSE st

\* disable that sets the flag and leaves the tooltip as it is
disable_FlagOnly(st, c) == [st EXCEPT !.tooltipStates[c].isDisabled = TRUE]

\* TooltipManager.disable
disable(st, c) ==
  hideTooltip([st EXCEPT !.tooltipStates[c].isDisabled = TRUE], c)

\* TooltipManager.enable
enable(st, c) ==
  With([st EXCEPT !.tooltipStates[c].isDisabled = FALSE],
       LAMBDA s1 :
         IF c \in s1.hoveredContainers /\ s1.activePointerContainer = 0
           THEN showTooltip(s1, c)
           ELSE s1)

\* the handlers have run: st is the state of the page
Commit(st) ==
  /\ tooltipStates' = st.tooltipStates
  /\ hoveredContainers' = st.hoveredContainers
  /\ activePointerContainer' = st.activePointerContainer
  /\ activePointerId' = st.activePointerId
  /\ timers' = st.timers

\* a place on the page: outside every container (c = 0), on a container
\* outside its tooltip, or inside its tooltip (a tab button, for the focus)
Outside == [c |-> 0, inTooltip |-> FALSE]

OnContainer(c) == [c |-> c, inTooltip |-> FALSE]

InTooltip(c) == [c |-> c, inTooltip |-> TRUE]

\* an event reached a handler of container c: the quiet period of c is over
EventFor(c) == quiet' = [quiet EXCEPT ![c] = FALSE]

TooltipInit ==
  /\ tooltipStates = [c \in Containers |-> NewTooltipState]
  /\ hoveredContainers = {}
  /\ activePointerContainer = 0
  /\ activePointerId = 0
  /\ timers = [c \in Containers |-> NoTimers]
  /\ pointerAt = [p \in Pointers |-> Outside]
  /\ pointerCapture = [p \in Pointers |-> 0]
  /\ focus = Outside
  /\ quiet = [c \in Containers |-> FALSE]
  /\ json = EndToEndJson
  /\ PipelineEmpty
  /\ disk = Unreadable
  /\ ServerNotStarted
  /\ LoaderNotStarted
  /\ GzipNotStarted
  /\ FilterNotStarted

\* a pointer comes onto a container; one captured elsewhere does not
PointerEnter(p, c) ==
  /\ pointerAt[p] = Outside
  /\ pointerCapture[p] \in {0, c}
  /\ pointerAt' = [pointerAt EXCEPT ![p] = OnContainer(c)]
  /\ Commit(onPointerEnter(Page, c))
  /\ quiet' = [quiet EXCEPT ![c] = activePointerContainer = 0
                                     /\ ~tooltipStates[c].isDisabled]
  /\ UNCHANGED <<pointerCapture, focus>>
  /\ UNCHANGED outsideTooltips

\* a pointer leaves a container and all that is in it; the tooltip being in
\* the container, the pointer is never on its way into the tooltip
PointerLeave(p, c) ==
  /\ pointerAt[p] = OnContainer(c)
  /\ pointerAt' = [pointerAt EXCEPT ![p] = Outside]
  /\ Commit(onPointerLeave(Page, c, FALSE))
  /\ EventFor(c)
  /\ UNCHANGED <<pointerCapture, focus>>
  /\ UNCHANGED outsideTooltips

\* a pointer moves from the container onto its tooltip, which is shown; no
\* handler is bound to this
PointerOntoTooltip(p, c) ==
  /\ pointerAt[p] = OnContainer(c)
  /\ pointerCapture[p] = 0
  /\ tooltipStates[c].status # "hidden"
  /\ pointerAt' = [pointerAt EXCEPT ![p] = InTooltip(c)]
  /\ UNCHANGED <<tooltipStates, hoveredContainers, activePointerContainer,
                 activePointerId, timers, pointerCapture, focus, quiet>>
  /\ UNCHANGED outsideTooltips

\* a pointer leaves the tooltip for the rest of the container
TooltipLeaveToContainer(p, c) ==
  /\ pointerAt[p] = InTooltip(c)
  /\ pointerAt' = [pointerAt EXCEPT ![p] = OnContainer(c)]
  /\ Commit(onTooltipPointerLeave(Page, c, TRUE))
  /\ EventFor(c)
  /\ UNCHANGED <<pointerCapture, focus>>
  /\ UNCHANGED outsideTooltips

\* a pointer leaves the tooltip and the container at once: pointerleave goes
\* to the tooltip, then to the container
TooltipLeaveOutside(p, c) ==
  /\ pointerAt[p] = InTooltip(c)
  /\ pointerAt' = [pointerAt EXCEPT ![p] = Outside]
  /\ Commit(onPointerLeave(onTooltipPointerLeave(Page, c, FALSE), c, FALSE))
  /\ EventFor(c)
  /\ UNCHANGED <<pointerCapture, focus>>
  /\ UNCHANGED outsideTooltips

\* the main button goes down on a container, outside its tooltip
PointerDown(p, c) ==
  /\ pointerAt[p] = OnContainer(c)
  /\ pointerCapture[p] = 0
  /\ pointerCapture' = [pointerCapture EXCEPT ![p] = c]
  /\ Commit(onPointerDown(Page, c, p))
  /\ EventFor(c)
  /\ UNCHANGED <<pointerAt, focus>>
  /\ UNCHANGED outsideTooltips

\* a button goes down on the tooltip; the event stops there
TooltipPointerDown(p, c) ==
  /\ pointerAt[p] = InTooltip(c)
  /\ Commit(onTooltipPointerDown(Page, c))
  /\ EventFor(c)
  /\ UNCHANGED <<pointerAt, pointerCapture, focus>>
  /\ UNCHANGED outsideTooltips

\* the button of a captured pointer goes up: pointerup, then the
\* lostpointercapture of the release
PointerUp(p, c) ==
  /\ pointerCapture[p] = c
  /\ pointerCapture' = [pointerCapture EXCEPT ![p] = 0]
  /\ Commit(onLostPointerCapture(onPointerUp(Page, c, p), c, p))
  /\ EventFor(c)
  /\ UNCHANGED <<pointerAt, focus>>
  /\ UNCHANGED outsideTooltips

\* the capture is lost without a pointerup (the pointer is cancelled)
LostPointerCapture(p, c) ==
  /\ pointerCapture[p] = c
  /\ pointerCapture' = [pointerCapture EXCEPT ![p] = 0]
  /\ Commit(onLostPointerCapture(Page, c, p))
  /\ EventFor(c)
  /\ UNCHANGED <<pointerAt, focus>>
  /\ UNCHANGED outsideTooltips

\* after the blur of the element that had the focus
AfterBlur(st, to) ==
  IF focus.c = 0 THEN st
  ELSE onBlur(st, focus.c, to = InTooltip(focus.c))

\* the focus moves: blur where it was, then focus where it is now, both seen
\* by the container in the capture phase; a tab button of a hidden tooltip
\* cannot take the focus
MoveFocus(to) ==
  /\ to # focus
  /\ to.inTooltip => tooltipStates[to.c].status # "hidden"
  /\ focus' = to
  /\ Commit(IF to.c = 0 THEN AfterBlur(Page, to)
            ELSE onFocus(AfterBlur(Page, to), to.c))
  /\ quiet' = [c \in Containers |->
                 IF c \in {focus.c, to.c} THEN FALSE ELSE quiet[c]]
  /\ UNCHANGED <<pointerAt, pointerCapture>>
  /\ UNCHANGED outsideTooltips

\* initTabKeyboardNav: an arrow key, Home or End on a tab button moves the
\* focus to another tab button of the same tooltip
TabKeydown(c) ==
  /\ focus = InTooltip(c)
  /\ Commit(onFocus(onBlur(Page, c, TRUE), c))
  /\ EventFor(c)
  /\ UNCHANGED <<pointerAt, pointerCapture, focus>>
  /\ UNCHANGED outsideTooltips

\* window.TooltipManager.disable(container)
Disable(c) ==
  /\ Commit(disable(Page, c))
  /\ EventFor(c)
  /\ UNCHANGED <<pointerAt, pointerCapture, focus>>
  /\ UNCHANGED outsideTooltips

\* window.TooltipManager.enable(container)
Enable(c) ==
  /\ Commit(enable(Page, c))
  /\ EventFor(c)
  /\ UNCHANGED <<pointerAt, pointerCapture, focus>>
  /\ UNCHANGED outsideTooltips

\* a timer has fired: the field that held its id now holds a spent id
Spent(st, t, field, stored) ==
  [st EXCEPT !.timers[t][field] = @ - 1,
             !.tooltipStates[t][field] = IF stored THEN "fired" ELSE @]

\* which of the pending timers of a field may fire: the one the field names,
\* or one the field no longer names
MayFire(t, field, stored) ==
  IF stored THEN tooltipStates[t][field] = "pending"
  ELSE timers[t][field] > (IF tooltipStates[t][field] = "pending" THEN 1 ELSE 0)

\* a timer set by showTooltip fires
ShowTimerFires(t) ==
  /\ \E stored \in BOOLEAN :
       /\ MayFire(t, "showTimeout", stored)
       /\ Commit(showCallback(Spent(Page, t, "showTimeout", stored), t))
  /\ UNCHANGED <<pointerAt, pointerCapture, focus, quiet>>
  /\ UNCHANGED outsideTooltips

\* a timer set by startLockCountdown fires
LockTimerFires(t) ==
  /\ \E stored \in BOOLEAN :
       /\ MayFire(t, "lockTimeout", stored)
       /\ Commit(lockTooltip(Spent(Page, t, "lockTimeout", stored), t))
  /\ UNCHANGED <<pointerAt, pointerCapture, focus, quiet>>
  /\ UNCHANGED outsideTooltips

TooltipNext ==
  \/ \E p \in Pointers, c \in Containers :
       \/ PointerEnter(p, c)
       \/ PointerLeave(p, c)
       \/ PointerOntoTooltip(p, c)
       \/ TooltipLeaveToContainer(p, c)
       \/ TooltipLeaveOutside(p, c)
       \/ PointerDown(p, c)
       \/ TooltipPointerDown(p, c)
       \/ PointerUp(p, c)
       \/ LostPointerCapture(p, c)
  \/ \E to \in {Outside} \cup {OnContainer(c) : c \in Containers}
                 \cup {InTooltip(c) : c \in Containers} : MoveFocus(to)
  \/ \E c \in Containers :
       \/ TabKeydown(c)
       \/ Disable(c)
       \/ Enable(c)
       \/ ShowTimerFires(c)
       \/ LockTimerFires(c)

SpecTooltip == TooltipInit /\ [][TooltipNext]_vars

\* the timers of the browser fire in the end
SpecTooltipFair ==
  /\ SpecTooltip
  /\ \A c \in Containers :
       /\ WF_vars(ShowTimerFires(c))
       /\ WF_vars(LockTimerFires(c))

----------------------------------------------------------------------------
(* The unit filter: static/js/modules/filter-engine.js, createUnitIndex    *)
(* of filter-state.js.  An element of the document is a record of its      *)
(* place in the document (id), its data attributes ("" for an absent one)  *)
(* and its text content; a JavaScript string is a sequence of characters.  *)

\* String.prototype.replace(/\s+/g, ' ')
RECURSIVE replaceWhitespaceRuns(_)
replaceWhitespaceRuns(s) ==
  IF s = <<>> THEN <<>>
  ELSE IF Head(s) \in Whitespace
    THEN <<" ">> \o replaceWhitespaceRuns(TrimLeft(Tail(s)))
    ELSE <<Head(s)>> \o replaceWhitespaceRuns(Tail(s))

\* function normalizeText: toLowerCase, trim, replace
normalizeText(text) ==
  replaceWhitespaceRuns(TrimSpace(StringsToLower(text)))

Lit_cost == <<"c","o","s","t">>

\* /(\d+)\s*cost/ anchored at i: index of the "t" of the match, 0 when none.
\* The runs are greedy; a shorter run of digits is followed by a digit, a
\* shorter run of spaces by a space, so there is one way to match.
costRe(s, i) ==
  With(RunEnd(s, i, DigitSet), LAMBDA d :
    IF d < i THEN 0
    ELSE With(RunEnd(s, d + 1, Whitespace) + 1, LAMBDA k :
           IF HasPrefixAt(s, k, Lit_cost) THEN k + 3 ELSE 0))

\* String.prototype.match without the g flag: where the leftmost match
\* starts, 0 when there is none
RECURSIVE costMatch(_, _)
costMatch(s, i) ==
  IF i > Len(s) THEN 0
  ELSE IF costRe(s, i) # 0 THEN i
  ELSE costMatch(s, i + 1)

\* String.prototype.replace(/(\d+)\s*cost/g, ''): every match is taken out,
\* from left to right, and what is left is not searched again
RECURSIVE removeCostFrom(_, _)
removeCostFrom(s, i) ==
  IF i > Len(s) THEN <<>>
  ELSE IF costRe(s, i) # 0 THEN removeCostFrom(s, costRe(s, i) + 1)
  ELSE <<s[i]>> \o removeCostFrom(s, i + 1)

\* String.prototype.split(' ') followed by filter(Boolean)
RECURSIVE splitNonEmpty(_)
splitNonEmpty(s) ==
  IF s = <<>> THEN <<>>
  ELSE With(IndexFrom(s, 1, " "), LAMBDA sp :
         IF sp = 0 THEN <<s>>
         ELSE IF sp = 1 THEN splitNonEmpty(Tail(s))
         ELSE <<SubSeq(s, 1, sp - 1)>>
              \o splitNonEmpty(SubSeq(s, sp + 1, Len(s))))

\* the value null of costFilter; a parsed cost is never negative
NullCost == -1

\* Number(t) for a string: 0 for the empty string, the value of a run of
\* digits, NaN (here -2, equal to no cost filter) for the rest
Number(t) ==
  IF t = <<>> THEN 0
  ELSE IF Range(t) \subseteq DigitSet THEN NatValue(t)
  ELSE -2

\* function parseQuery
parseQuery(query) ==
  With(normalizeText(query), LAMBDA normalized :
  With(costMatch(normalized, 1), LAMBDA m :
    [ costFilter |->
        IF m = 0 THEN NullCost
        ELSE Number(SubSeq(normalized, m, RunEnd(normalized, m, DigitSet))),
      terms |-> splitNonEmpty(removeCostFrom(normalized, 1)) ]))

\* String.prototype.includes
includes(s, term) == \E i \in 1..(Len(s) + 1) : HasPrefixAt(s, i, term)

\* function matchesFilter, with the unlock filter left out
matchesFilter_IgnoreUnlock(p) ==
  /\ p.selectedCosts = {} \/ p.unitCost \in p.selectedCosts
  /\ p.queryCost = NullCost \/ Number(p.unitCost) = p.queryCost
  /\ \A k \in DOMAIN p.terms : includes(p.searchText, p.terms[k])

\* function matchesFilter: costOk && unlockOk && termsOk
matchesFilter(p) ==
  /\ /\ p.selectedCosts = {} \/ p.unitCost \in p.selectedCosts
     /\ p.queryCost = NullCost \/ Number(p.unitCost) = p.queryCost
  /\ ~p.unlockOnly \/ p.isUnlockable
  /\ \A k \in DOMAIN p.terms : includes(p.searchText, p.terms[k])

\* function buildSearchText
buildSearchText(data) ==
  normalizeText(Join(<<data.search, data.unit, data.cost,
                       replaceWhitespaceRuns(data.textContent)>>, <<" ">>))

\* function createUnitIndex with buildSearchText, as search-filter.js calls it
createUnitIndex(els) ==
  [k \in DOMAIN els |->
    [ el |-> els[k],
      text |-> buildSearchText([search |-> els[k].search,
                                unit |-> els[k].unit,
                                cost |-> els[k].cost,
                                textContent |-> els[k].textContent]) ]]

Lit_true == <<"t","r","u","e">>

\* the loop of filterUnits from the entry i of the index on
RECURSIVE filterLoop(_, _, _, _, _)
filterLoop(index, i, parsed, crit, acc) ==
  IF i > Len(index) THEN acc
  ELSE With(matchesFilter([ searchText |-> index[i].text,
                            unitCost |-> index[i].el.cost,
                            isUnlockable |-> index[i].el.unlock = Lit_true,
                            selectedCosts |-> crit.selectedCosts,
                            queryCost |-> parsed.costFilter,
                            terms |-> parsed.terms,
                            unlockOnly |-> crit.unlockOnly ]),
         LAMBDA matches :
           filterLoop(index, i + 1, parsed, crit,
             IF matches
               THEN [acc EXCEPT !.visible = Append(@, index[i].el)]
               ELSE [acc EXCEPT !.hidden = Append(@, index[i].el)]))

\* function filterUnits
filterUnits(index, crit) ==
  With(filterLoop(index, 1, parseQuery(crit.query), crit,
                  [visible |-> <<>>, hidden |-> <<>>]),
       LAMBDA r : [ visible |-> r.visible, hidden |-> r.hidden,
                    count |-> Len(r.visible) ])

\* how many unit containers the document has at most
MaxUnits == 3

\* the containers a page of the site has: the data attributes the unit
\* template writes, the cost a number of the set file
UnitElements ==
  { [ id |-> 1, search |-> <<"A","h","r","i"," ","A","P">>,
      unit |-> <<"A","h","r","i">>, cost |-> <<"1">>, unlock |-> <<>>,
      textContent |-> <<"\n"," ","A","h","r","i","\n"," ">> ],
    [ id |-> 2, search |-> <<"Z","o","e"," ","A","P">>,
      unit |-> <<"Z","o","e">>, cost |-> <<"3">>, unlock |-> Lit_true,
      textContent |-> <<"Z","o","e"," "," ","3">> ],
    [ id |-> 3, search |-> <<"X","a","y","a","h">>,
      unit |-> <<"X","a","y","a","h">>, cost |-> <<"3">>,
      unlock |-> <<"f","a","l","s","e">>,
      textContent |-> <<"X","a","y","a","h">> ] }

\* the documents: the containers in document order, none twice
Documents ==
  UNION { { d \in [1..n -> UnitElements] :
              \A a, b \in 1..n : a # b => d[a].id # d[b].id } : n \in 0..MaxUnits }

\* what the user may have typed in the search box
Queries ==
  { <<>>,
    <<" ","A","h","r","i">>,
    <<"3"," ","c","o","s","t">>,
    <<"a","p"," ","1","c","o","s","t">>,
    <<"1","3"," ","C","o","s","t">>,
    <<"a","3","c","o","s","t","h">>,
    <<"1"," ","c","o","s","t"," ","3","c","o","s","t">>,
    <<"c","o","s","t">>,
    <<"A","P"," "," ","z","o">> }

\* the data-cost values of the cost buttons toggleCost may have added
CostButtons == { <<"1">>, <<"3">> }

Criteria ==
  [ query : Queries, selectedCosts : SUBSET CostButtons, unlockOnly : BOOLEAN ]

FilterInit ==
  /\ elements \in Documents
  /\ criteria \in Criteria
  /\ filtered = [visible |-> <<>>, hidden |-> <<>>, count |-> 0]
  /\ filterPc = "start"
  /\ json = EndToEndJson
  /\ PipelineEmpty
  /\ disk = Unreadable
  /\ ServerNotStarted
  /\ LoaderNotStarted
  /\ GzipNotStarted
  /\ TooltipsNotStarted

\* applyFilters: filterUnits over the index of the cards of the
\* document and the criteria of the filter state
FilterUnits ==
  /\ filterPc = "start"
  /\ filtered' = filterUnits(createUnitIndex(elements), criteria)
  /\ filterPc' = "filtered"
  /\ UNCHANGED <<elements, criteria>>
  /\ UNCHANGED outsideFilter

FilterNext == FilterUnits

SpecFilter == FilterInit /\ [][FilterNext]_vars

----------------------------------------------------------------------------
(* Properties of the formatter *)

\* s holds t as a contiguous part, starting at i
OccursAt(s, t, i) ==
  /\ i >= 1
  /\ i + Len(t) - 1 <= Len(s)
  /\ \A k \in 1..Len(t) : s[i + k - 1] = t[k]

Occurrences(s, t) == Cardinality({i \in 1..Len(s) : OccursAt(s, t, i)})

Contains(s, t) == \E i \in 1..Len(s) : OccursAt(s, t, i)

\* the tokens of s for one pattern, as the pairs <<first, last>> of their
\* positions: the leftmost matches from left to right, none overlapping
RECURSIVE TokenSpansFrom(_, _, _)
TokenSpansFrom(s, i, re) ==
  IF i > Len(s) THEN {}
  ELSE LET e == TokenRe(re, s, i) IN
    IF e = 0 THEN TokenSpansFrom(s, i + 1, re)
    ELSE {<<i, e>>} \cup TokenSpansFrom(s, e + 1, re)

\* the @...@ and {...} tokens of s
TokenSpans(s) == TokenSpansFrom(s, 1, "at") \cup TokenSpansFrom(s, 1, "brace")

\* the first segment of a token given with its delimiters
TokenName(tok) == splitToken(SubSeq(tok, 2, Len(tok) - 1)).name

TokenField(tok) == splitToken(SubSeq(tok, 2, Len(tok) - 1)).field

\* the description FormatAbilityDescription renders in this state
Chosen == ChosenDescription(ability)

\* the positions of the tokens of the chosen description whose first segment
\* is not / is a key of the variable map
UnresolvedSpans ==
  {sp \in TokenSpans(Chosen) :
     TokenName(SubSeq(Chosen, sp[1], sp[2])) \notin DOMAIN ability.Variables}

ResolvedSpans == TokenSpans(Chosen) \ UnresolvedSpans

\* C1: every token of the chosen description whose first segment is not a
\* key of the variable map appears verbatim, delimiters included, in the
\* output of FormatAbilityDescription: the output holds each such token text
\* at least as many times as the description has it as an unresolved token
C1_UnresolvedTokensVerbatim ==
  pc = "formatted" =>
    \A sp \in UnresolvedSpans :
      LET tok == SubSeq(Chosen, sp[1], sp[2]) IN
      Occurrences(out, tok) >=
        Cardinality({o \in UnresolvedSpans : SubSeq(Chosen, o[1], o[2]) = tok})

\* C1 happens: a description with an unresolved token next to a token that
\* was replaced
C1_Witness ==
  /\ pc = "formatted"
  /\ UnresolvedSpans # {}
  /\ ResolvedSpans # {}
  /\ TokenOpen \in Range(out)

\* C2 as stated: a token whose first segment is a key of the variable map is
\* always replaced by a non-empty rendering, it is never left as literal text
C2_PresentVariableAlwaysRendered ==
  pc = "formatted" =>
    \A sp \in ResolvedSpans :
      LET tok == SubSeq(Chosen, sp[1], sp[2]) IN
      /\ TokenReplacement(tok, ability.Variables) # tok
      /\ TokenReplacement(tok, ability.Variables) # <<>>

\* a variable with no non-blank display value, no numeric value, no type
\* and no name
Meaningless(v) ==
  /\ \A i \in DOMAIN v.DisplayValues : TrimSpace(v.DisplayValues[i]) = <<>>
  /\ v.Values = <<>>
  /\ v.Type = <<>>
  /\ v.Name = <<>>

\* C2, amended: a token whose first segment is a key of the variable map is
\* replaced by a non-empty rendering, except that a token without a field
\* naming a variable with no non-blank display value, no numeric value, no
\* type and no name is left as literal text
C2_RenderedUnlessMeaningless ==
  pc = "formatted" =>
    \A sp \in ResolvedSpans :
      LET tok == SubSeq(Chosen, sp[1], sp[2])
          v == ability.Variables[TokenName(tok)]
      IN IF TokenField(tok) = <<>> /\ Meaningless(v)
           THEN TokenReplacement(tok, ability.Variables) = tok
           ELSE /\ TokenReplacement(tok, ability.Variables) # tok
                /\ TokenReplacement(tok, ability.Variables) # <<>>
                /\ renderAbilityValue(v, TokenField(tok)) # <<>>

\* C2 happens: the description is one token of a meaningless variable that
\* is in the map, and the output is that token
C2_Witness ==
  /\ pc = "formatted"
  /\ \E sp \in ResolvedSpans :
       /\ sp = <<1, Len(Chosen)>>
       /\ TokenField(Chosen) = <<>>
       /\ Meaningless(ability.Variables[TokenName(Chosen)])
  /\ out = Chosen

\* C3 as stated: no '<', '>' or '"' of the output comes from data; in the
\* output every such character is inside a piece of markup the formatter
\* writes itself, so none is an element of its own
C3_NoMarkupFromData ==
  pc = "formatted" => \A i \in DOMAIN out : out[i] \notin {"<", ">", "\""}

\* a parenthesized span of s: '(' at i, ')' at e, no parenthesis between
ParenSpan(s, i, e) ==
  /\ IsAt(s, i, "(")
  /\ IsAt(s, e, ")")
  /\ i < e
  /\ \A k \in (i + 1)..(e - 1) : s[k] \notin {"(", ")"}

\* the span holds a marker: '@', one or more characters other than '@', '@'
HasMarker(s, i, e) ==
  \E p \in (i + 1)..(e - 1) : \E q \in (p + 2)..(e - 1) :
    /\ s[p] = "@"
    /\ s[q] = "@"
    /\ \A k \in (p + 1)..(q - 1) : s[k] # "@"

\* the inner text of the span, and that text rendered through the at-token
\* and brace-token rules
InnerText(s, i, e) == TrimSpace(SubSeq(s, i + 1, e - 1))

RenderedInner(s, i, e, variables) ==
  replaceAbilityTokens(
    replaceAbilityTokens(InnerText(s, i, e), variables, "at"),
    variables, "brace")

\* the spans that are to be wrapped
ToWrap(s, variables) ==
  {sp \in (1..Len(s)) \X (1..Len(s)) :
     /\ ParenSpan(s, sp[1], sp[2])
     /\ HasMarker(s, sp[1], sp[2])
     /\ RenderedInner(s, sp[1], sp[2], variables) # InnerText(s, sp[1], sp[2])}

\* s with exactly the spans of ToWrap wrapped and everything else unchanged
RECURSIVE ExpectedParenFrom(_, _, _)
ExpectedParenFrom(s, i, variables) ==
  IF i > Len(s) THEN <<>>
  ELSE IF \E sp \in ToWrap(s, variables) : sp[1] = i
    THEN LET e == (CHOOSE sp \in ToWrap(s, variables) : sp[1] = i)[2] IN
         <<GroupOpen>> \o RenderedInner(s, i, e, variables) \o <<GroupClose>>
         \o ExpectedParenFrom(s, e + 1, variables)
    ELSE <<s[i]>> \o ExpectedParenFrom(s, i + 1, variables)

\* C4: a parenthesized span of the description is wrapped in the
\* ability-scaling-group / ability-scaling-paren spans if and only if it
\* holds an @...@ marker and rendering its inner text through the at-token
\* and brace-token rules changes that text; every other parenthetical is
\* emitted unchanged with no wrapper
C4_WrappedIffMarkerAndChanged ==
  (pc = "formatted" /\ Chosen # <<>>) =>
    withParen = ExpectedParenFrom(escaped, 1, ability.Variables)

\* C4 happens: one parenthetical was wrapped and a parenthesis that is not
\* part of a wrapped span was left as it is
C4_Witness ==
  /\ pc = "formatted"
  /\ GroupOpen \in Range(withParen)
  /\ "(" \in Range(withParen)

Text_100_150_200 == <<"1","0","0","/","1","5","0","/","2","0","0">>

ApIconClass == scalingIconMap[<<"A","P">>]

\* C5 as stated: for the end-to-end ability the adapter keeps the
\* description as it is, and the output holds 100/150/200 and an AP icon span
\* inside an ability-scaling-group wrapper
C5_EndToEndIconInGroup ==
  (pc = "formatted" /\ json = EndToEndJson) =>
    /\ ability.Description = EndToEndDescription
    /\ Contains(out, Text_100_150_200)
    /\ \E g \in DOMAIN out : \E i \in DOMAIN out : \E c \in DOMAIN out :
         /\ g < i /\ i + 1 < c
         /\ out[g] = GroupOpen
         /\ out[i] = IconOpen /\ out[i + 1] = ApIconClass
         /\ out[c] = GroupClose

\* C5, amended: for the end-to-end ability the adapter keeps the description
\* as it is, and the output is the description with @MagicDamage@ replaced by
\* an ability-token span holding 100/150/200; (@Scaling@) names no variable
\* and stays as literal text, with no group wrapper and no icon span
C5_EndToEndValuesOnly ==
  (pc = "formatted" /\ json = EndToEndJson) =>
    /\ ability.Description = EndToEndDescription
    /\ out = SubSeq(EndToEndDescription, 1, 6)
             \o <<TokenOpen, AttrClose>> \o Text_100_150_200 \o <<SpanClose>>
             \o SubSeq(EndToEndDescription, 20, Len(EndToEndDescription))
    /\ GroupOpen \notin Range(out)
    /\ IconOpen \notin Range(out)

\* C5 happens: the end-to-end ability has been loaded and formatted
C5_Witness ==
  /\ pc = "formatted"
  /\ json = EndToEndJson
  /\ Contains(out, Text_100_150_200)

\* the entries of a list of strings, trimmed, the blank ones left out
NonBlank(values) ==
  SelectSeq([i \in DOMAIN values |-> TrimSpace(values[i])],
            LAMBDA x : x # <<>>)

\* numbers formatted as the shortest decimal that reads back
FormattedNumbers(values) == [i \in DOMAIN values |-> FormatFloat(values[i])]

\* the plain ability-token span of variable v around an escaped text
PlainSpan(v, text) ==
  TokenClasses(v) \o <<AttrClose>> \o EscapeString(text) \o <<SpanClose>>

\* the tokens of the chosen description that name a variable of the map and
\* have the field "values" or no field
ValueTokens ==
  {SubSeq(Chosen, sp[1], sp[2]) : sp \in
     {r \in ResolvedSpans :
        TokenField(SubSeq(Chosen, r[1], r[2])) \in {<<>>, FieldValues}}}

\* C6 as stated: a token with field "values" or with no field is rendered
\* as all displayValues joined with "/" whenever displayValues is not empty,
\* and as the formatted numeric values joined with "/" only when it is empty
C6_AllDisplayValuesJoined ==
  pc = "formatted" =>
    \A tok \in ValueTokens :
      LET v == ability.Variables[TokenName(tok)] IN
      /\ v.DisplayValues # <<>> =>
           TokenReplacement(tok, ability.Variables)
             = PlainSpan(v, Join(v.DisplayValues, <<"/">>))
      /\ (v.DisplayValues = <<>> /\ v.Values # <<>>) =>
           TokenReplacement(tok, ability.Variables)
             = PlainSpan(v, Join(FormattedNumbers(v.Values), <<"/">>))

\* C6, amended: a token with field "values" or with no field is rendered as
\* the non-blank displayValues, trimmed, joined with "/" in list order
\* whenever one of them is not blank (blank entries are left out); when all
\* are blank or there is none, it is the formatted numeric values joined
\* with "/" if there are any
C6_NonBlankDisplayValuesJoined ==
  pc = "formatted" =>
    \A tok \in ValueTokens :
      LET v == ability.Variables[TokenName(tok)] IN
      /\ NonBlank(v.DisplayValues) # <<>> =>
           TokenReplacement(tok, ability.Variables)
             = PlainSpan(v, Join(NonBlank(v.DisplayValues), <<"/">>))
      /\ (NonBlank(v.DisplayValues) = <<>> /\ v.Values # <<>>) =>
           TokenReplacement(tok, ability.Variables)
             = PlainSpan(v, Join(FormattedNumbers(v.Values), <<"/">>))

\* C6 happens: the description is one such token, its variable has a blank
\* and a non-blank display value, and the output is the span of the joined
\* non-blank values
C6_Witness ==
  /\ pc = "formatted"
  /\ Chosen \in ValueTokens
  /\ LET v == ability.Variables[TokenName(Chosen)] IN
       /\ \E i \in DOMAIN v.DisplayValues : v.DisplayValues[i] = <<>>
       /\ Len(NonBlank(v.DisplayValues)) >= 1
       /\ out = PlainSpan(v, Join(NonBlank(v.DisplayValues), <<"/">>))

\* the first non-empty element of a chain, "" when there is none
FirstNonEmpty(chain) ==
  IF \A i \in DOMAIN chain : chain[i] = <<>> THEN <<>>
  ELSE chain[CHOOSE i \in DOMAIN chain :
               /\ chain[i] # <<>>
               /\ \A k \in 1..(i - 1) : chain[k] = <<>>]

\* the chain displayValues, numeric values, type, variable name, field name
FallbackChain(v, field) ==
  <<Join(NonBlank(v.DisplayValues), <<"/">>),
    Join(FormattedNumbers(v.Values), <<"/">>),
    v.Type, v.Name, field>>

\* what the selected field yields by itself; "" for an unknown field
SelectedYield(v, field) ==
  IF field \in {<<>>, FieldValues}
    THEN FirstNonEmpty(<<Join(NonBlank(v.DisplayValues), <<"/">>),
                         Join(FormattedNumbers(v.Values), <<"/">>)>>)
  ELSE IF field = FieldScaling
    THEN IF v.Scalings # <<>> THEN Join(v.Scalings, <<" ","+"," ">>)
         ELSE v.Scaling
  ELSE IF field = FieldType THEN v.Type
  ELSE <<>>

\* the fields of the tokens of the chosen description, and the fixed ones
FieldsTried ==
  {TokenField(SubSeq(Chosen, sp[1], sp[2])) : sp \in ResolvedSpans}
  \cup {<<>>, FieldValues, FieldScaling, FieldType, <<"x">>}

\* C7: when the field of a token is unknown, or the selected field yields
\* nothing, the rendered content is the first non-empty element of the chain
\* displayValues, numeric values, type, variable name, field name
C7_FallbackChainInOrder ==
  pc = "formatted" =>
    \A name \in DOMAIN ability.Variables : \A field \in FieldsTried :
      LET v == ability.Variables[name] IN
      SelectedYield(v, field) = <<>> =>
        selectAbilityContent(v, field) = FirstNonEmpty(FallbackChain(v, field))

\* C7 happens: the description is one token with an unknown field, its
\* variable has no display and no numeric value but a type, and the output
\* is the span of the type
C7_Witness ==
  /\ pc = "formatted"
  /\ ResolvedSpans = {<<1, Len(Chosen)>>}
  /\ TokenField(Chosen) \notin {<<>>, FieldValues, FieldScaling, FieldType}
  /\ LET v == ability.Variables[TokenName(Chosen)] IN
       /\ v.DisplayValues = <<>>
       /\ v.Values = <<>>
       /\ v.Type # <<>>
       /\ v.Name # <<>>
       /\ out = PlainSpan(v, v.Type)

\* the codes that have an icon
IconCodes ==
  {<<"A","P">>, <<"A","D">>, <<"A","S">>, <<"A","R","M","O","R">>,
   <<"M","R">>, <<"C","C">>, <<"C","D">>, <<"H","P">>, <<"M","A","N","A">>,
   <<"R","A","N","G","E">>, <<"S","O","U","L","S">>}

\* a tag normalized to its letters and digits, in upper case
LettersAndDigitsUpper(tag) ==
  LET kept == SelectSeq(tag, LAMBDA c : c \in LetterSet \cup DigitSet)
  IN [i \in DOMAIN kept |-> ToUpper(kept[i])]

\* the span of one scaling part: the icon span of its code, or a plain span
ExpectedPartSpan(part) ==
  IF LettersAndDigitsUpper(part) \in IconCodes
    THEN <<IconOpen, scalingIconMap[LettersAndDigitsUpper(part)], IconLabel>>
         \o EscapeString(part) \o <<IconText>> \o EscapeString(part)
         \o <<IconClose>>
    ELSE <<TokenOpen, AttrClose>> \o EscapeString(part) \o <<SpanClose>>

\* the spans of the parts one after the other, the separator between them
RECURSIVE ExpectedParts(_)
ExpectedParts(parts) ==
  IF parts = <<>> THEN <<>>
  ELSE IF Len(parts) = 1 THEN ExpectedPartSpan(parts[1])
  ELSE ExpectedPartSpan(parts[1]) \o <<PlusSpan>> \o ExpectedParts(Tail(parts))

\* the tokens of the chosen description that name a variable of the map and
\* have the field "scaling"
ScalingTokens ==
  {SubSeq(Chosen, sp[1], sp[2]) : sp \in
     {r \in ResolvedSpans :
        TokenField(SubSeq(Chosen, r[1], r[2])) = FieldScaling}}

\* C8: in the rendering of a token with field "scaling", each part whose
\* tag, normalized to upper-case letters and digits, is one of the eleven
\* codes is an icon span with that code's class, an aria-label and a text
\* child holding the part text; every other part is a plain ability-token
\* span with its text
C8_IconSpanForKnownCodes ==
  pc = "formatted" =>
    \A tok \in ScalingTokens :
      LET v == ability.Variables[TokenName(tok)]
          parts == NonBlank(scalingParts(v))
      IN parts # <<>> =>
           TokenReplacement(tok, ability.Variables) = ExpectedParts(parts)

\* C8 happens: the description is one scaling token of a variable that has
\* a part with a code written in another spelling and a part with no code,
\* and the output holds an icon span and a plain span
C8_Witness ==
  /\ pc = "formatted"
  /\ Chosen \in ScalingTokens
  /\ LET parts == NonBlank(scalingParts(ability.Variables[TokenName(Chosen)]))
     IN /\ \E i \in DOMAIN parts :
             /\ LettersAndDigitsUpper(parts[i]) \in IconCodes
             /\ LettersAndDigitsUpper(parts[i]) # parts[i]
        /\ \E i \in DOMAIN parts : LettersAndDigitsUpper(parts[i]) \notin IconCodes
        /\ out = ExpectedParts(parts)
  /\ IconOpen \in Range(out)
  /\ TokenOpen \in Range(out)

\* how many elements of s are in the set S
CountIn(s, S) == Cardinality({i \in DOMAIN s : s[i] \in S})

RawScalingOfA ==
  IF json.variables.kind = "map" /\ NameA \in DOMAIN json.variables.map
     /\ json.variables.map[NameA].scaling.kind = "arr"
    THEN [i \in DOMAIN json.variables.map[NameA].scaling.items |->
            IF json.variables.map[NameA].scaling.items[i].kind = "str"
              THEN json.variables.map[NameA].scaling.items[i].str
              ELSE <<>>]
    ELSE <<>>

Times100 == <<"*","1","0","0">>

\* C10 as stated: a {Name*100} placeholder in an ability that has a variable
\* Name is rendered with the unmultiplied values of that variable, so it does
\* not stay in the output as literal text
C10_Times100RendersValues ==
  pc = "formatted" =>
    \A sp \in TokenSpansFrom(Chosen, 1, "brace") :
      \A name \in DOMAIN ability.Variables :
        LET tok == SubSeq(Chosen, sp[1], sp[2]) IN
        tok = <<"{">> \o name \o Times100 \o <<"}">> =>
          /\ TokenReplacement(tok, ability.Variables)
               = renderAbilityValue(ability.Variables[name], <<>>)
          /\ ~Contains(out, tok)

----------------------------------------------------------------------------
(* Properties of the decoders and of the adapter *)

\* the "variables" of the set JSON when they have the mapping form
JsonMap == IF json.variables.kind = "map" THEN json.variables.map ELSE <<>>

\* the "variables" of the set JSON when they have the list form
JsonList == IF json.variables.kind = "list" THEN json.variables.list ELSE <<>>

\* a "values" the Value Normalizer accepts by contract: a number, a string,
\* or an array of at least one number or string
SupportedValues(v) ==
  \/ v.kind \in {"num", "str"}
  \/ /\ v.kind = "arr"
     /\ v.items # <<>>
     /\ \A i \in DOMAIN v.items : v.items[i].kind \in {"num", "str"}

\* a "scaling" the Scaling Normalizer decodes without error: null, a string,
\* or an array whose elements are strings or null
SupportedScaling(sc) ==
  \/ sc.kind \in {"null", "str"}
  \/ /\ sc.kind = "arr"
     /\ \A i \in DOMAIN sc.items : sc.items[i].kind \in {"str", "null"}

\* the elements of a "values": the items of an array, or the value alone
ValueElements(v) == IF v.kind = "arr" THEN v.items ELSE <<v>>

\* the shortest decimal text of the numbers of the inputs (in tenths)
DecimalText ==
  (0 :> <<"0">>) @@ (10 :> <<"1">>) @@ (15 :> <<"1",".","5">>)
  @@ (1000 :> <<"1","0","0">>) @@ (1500 :> <<"1","5","0">>)
  @@ (2000 :> <<"2","0","0">>)

\* the numerals among the strings of the inputs, and their values in tenths
NumeralValue == (<<"5">> :> 50) @@ (<<"1",".","5">> :> 15)

StripPercent(t) ==
  IF t # <<>> /\ t[Len(t)] = "%" THEN SubSeq(t, 1, Len(t) - 1) ELSE t

\* the element is a number, or a string that reads as one once it is trimmed
\* and a trailing "%" is taken off
Parses(e) ==
  \/ e.kind = "num"
  \/ e.kind = "str" /\ StripPercent(TrimSpace(e.str)) \in DOMAIN NumeralValue

ExpectedDisplay(v) ==
  [i \in DOMAIN ValueElements(v) |->
     LET e == ValueElements(v)[i] IN
     IF e.kind = "num" THEN DecimalText[e.num] ELSE TrimSpace(e.str)]

ExpectedNumbers(v) ==
  LET parsing == SelectSeq(ValueElements(v), Parses) IN
  [i \in DOMAIN parsing |->
     IF parsing[i].kind = "num" THEN parsing[i].num
     ELSE NumeralValue[StripPercent(TrimSpace(parsing[i].str))]]

\* C11: a "values" that is a number, a string or an array of numbers and
\* strings decodes without error; Display() has one entry per element in
\* input order, a number as its shortest decimal text and a string trimmed
\* with its suffix kept; Numbers() has the value of each element that parses
\* (a trailing "%" taken off for the parse only), in input order, and an
\* element that does not parse is in Display() only
C11_DisplayAndNumbersPerElement ==
  /\ pc \in {"loaded", "formatted"} =>
       \A n \in DOMAIN JsonMap :
         SupportedValues(JsonMap[n].values) =>
           /\ ability.Variables[n].DisplayValues
                = ExpectedDisplay(JsonMap[n].values)
           /\ ability.Variables[n].Values = ExpectedNumbers(JsonMap[n].values)
  /\ pc = "failed" =>
       \E n \in DOMAIN JsonMap :
         \/ ~SupportedValues(JsonMap[n].values) /\ JsonMap[n].values.kind # "null"
         \/ ~SupportedScaling(JsonMap[n].scaling)

\* C11 happens: an array of a padded string with "%" and a string that does
\* not parse has been decoded into two display values and one number
C11_Witness ==
  /\ pc = "loaded"
  /\ NameA \in DOMAIN JsonMap
  /\ JsonMap[NameA].values
       = JArr(<<JStr(<<" ","5","%"," ">>), JStr(<<"5"," ","%">>)>>)
  /\ ability.Variables[NameA].DisplayValues = <<(<<"5","%">>), (<<"5"," ","%">>)>>
  /\ ability.Variables[NameA].Values = <<50>>

\* a "scaling" that is a string or an array of strings
StringOrStrings(sc) ==
  \/ sc.kind = "str"
  \/ /\ sc.kind = "arr"
     /\ \A i \in DOMAIN sc.items : sc.items[i].kind = "str"

\* C12 as stated: an object or a boolean as "values", and any "scaling" that
\* is neither a string nor an array of strings, makes the decode fail
C12_UnsupportedShapeIsError ==
  pc # "json" =>
    \A n \in DOMAIN JsonMap :
      (\/ JsonMap[n].values.kind \in {"obj", "bool"}
       \/ ~StringOrStrings(JsonMap[n].scaling)) => pc = "failed"

\* C12, amended: an object or a boolean as "values", and a "scaling" that is
\* a number, a boolean, an object, or an array with an element that is
\* neither a string nor null, makes the decode fail; a null "scaling" is not
\* an error
C12_UnsupportedShapeIsErrorNullAccepted ==
  pc # "json" =>
    \A n \in DOMAIN JsonMap :
      (\/ JsonMap[n].values.kind \in {"obj", "bool"}
       \/ ~SupportedScaling(JsonMap[n].scaling)) => pc = "failed"

\* C12 happens: the load has failed on a "scaling" array that holds a number,
\* next to a "values" that decodes
C12_Witness ==
  /\ pc = "failed"
  /\ NameA \in DOMAIN JsonMap
  /\ SupportedValues(JsonMap[NameA].values)
  /\ JsonMap[NameA].scaling = JArr(<<JStr(<<"A","P">>), JNum(10)>>)

\* the entries of a "scaling" that is a string or an array of strings
ScalingEntries(sc) ==
  IF sc.kind = "str" THEN <<sc.str>>
  ELSE [i \in DOMAIN sc.items |-> sc.items[i].str]

\* C13: after a "scaling" that is a string or an array of strings is decoded,
\* All() is the input entries trimmed, the ones that are empty after the trim
\* left out, in the order of the input (so it holds no empty string and is
\* not sorted), and Primary() is the first element of All(), or the empty
\* string when All() is empty
C13_AllTrimmedNonEmptyInOrder ==
  pc \in {"loaded", "formatted"} =>
    \A n \in DOMAIN JsonMap :
      StringOrStrings(JsonMap[n].scaling) =>
        LET all == ability.Variables[n].Scalings
            primary == ability.Variables[n].Scaling
            trimmed == [i \in DOMAIN ScalingEntries(JsonMap[n].scaling) |->
                          TrimSpace(ScalingEntries(JsonMap[n].scaling)[i])]
        IN /\ all = SelectSeq(trimmed, LAMBDA x : x # <<>>)
           /\ \A i \in DOMAIN all : all[i] # <<>>
           /\ primary = IF all = <<>> THEN <<>> ELSE all[1]

\* C13 happens: an array of three entries, one of them blank, one padded,
\* has been decoded into two entries that are not in sorted order
C13_Witness ==
  /\ pc = "loaded"
  /\ NameA \in DOMAIN JsonMap
  /\ JsonMap[NameA].scaling.kind = "arr"
  /\ Len(JsonMap[NameA].scaling.items) = 3
  /\ ability.Variables[NameA].Scalings = <<(<<"x">>), (<<"a",".","d">>)>>
  /\ ability.Variables[NameA].Scaling = <<"x">>

\* the description the adapter selects: "description" trimmed, or
\* "descriptionRaw" trimmed when "description" is blank
SelectedDescription ==
  IF TrimSpace(json.description) # <<>> THEN TrimSpace(json.description)
  ELSE TrimSpace(json.descriptionRaw)

\* C14: when "variables" is a non-empty mapping, the Description Normalizer
\* is not run: the Description of the adapted Ability is the selected
\* description as it is, its @Name@ tokens included, and the variables are
\* the entries of the mapping, one per key
C14_MappingFormKeepsDescription ==
  (pc \in {"loaded", "formatted"} /\ DOMAIN JsonMap # {}) =>
    /\ ability.Description = SelectedDescription
    /\ DOMAIN ability.Variables = DOMAIN JsonMap
    /\ \A n \in DOMAIN JsonMap :
         /\ ability.Variables[n].Type = TrimSpace(JsonMap[n].type)
         /\ ability.Variables[n].CSSClass = TrimSpace(JsonMap[n].cssClass)

\* C14 happens: an ability with a mapping has been adapted, its description
\* holds the token @A@, and the Description Normalizer would have changed it
C14_Witness ==
  /\ pc = "loaded"
  /\ DOMAIN JsonMap # {}
  /\ Contains(ability.Description, <<"@","A","@">>)
  /\ normalizeDescription(json.description) # ability.Description

\* C15 as stated: when "variables" is not a non-empty mapping and the
\* selected description is not empty, the Description of the adapted Ability
\* is the Description Normalizer's output on the selected description when
\* that output is not empty, and the selected description otherwise
C15_NormalizerOnSelectedDescription ==
  (/\ pc \in {"loaded", "formatted"}
   /\ DOMAIN JsonMap = {}
   /\ SelectedDescription # <<>>) =>
    ability.Description
      = NonEmptyOr(normalizeDescription(SelectedDescription), SelectedDescription)

\* C16 as stated: every entry of the adapted variable map is stored under
\* its own Name, for the mapping form and for the list form
C16_KeyEqualsName ==
  pc \in {"loaded", "formatted"} =>
    \A k \in DOMAIN ability.Variables : ability.Variables[k].Name = k

\* the places of "@" in s, and how many of them are at or before i
AtPlaces(s) == {i \in DOMAIN s : s[i] = "@"}

AtRank(s, i) == Cardinality({j \in AtPlaces(s) : j <= i})

\* a legacy token name: letters, digits and underscores, then "*100" or not
IsLegacyName(t) ==
  LET base == IF Len(t) > 4 /\ SubSeq(t, Len(t) - 3, Len(t)) = <<"*","1","0","0">>
                THEN SubSeq(t, 1, Len(t) - 4) ELSE t
  IN base # <<>> /\ Range(base) \subseteq WordClass

\* s is prose and legacy tokens only: none of the removal steps of the
\* normalizer applies to it, and its "@" pair up around token names
ProseAndTokens(s) ==
  /\ Range(s) \subseteq WordClass \cup Whitespace \cup {"@", "*"}
  /\ \A i \in DOMAIN s : ~HasPrefixFoldAt(s, i, Lit_keyword)
  /\ Cardinality(AtPlaces(s)) % 2 = 0
  /\ \A i \in AtPlaces(s) :
       AtRank(s, i) % 2 = 1 =>
         LET close == CHOOSE j \in AtPlaces(s) : AtRank(s, j) = AtRank(s, i) + 1
         IN IsLegacyName(SubSeq(s, i + 1, close - 1))

\* every token @...@ of s written as {...}, the rest of s in place
TokensInBraces(s) ==
  [i \in DOMAIN s |->
     IF s[i] # "@" THEN s[i]
     ELSE IF AtRank(s, i) % 2 = 1 THEN "{" ELSE "}"]

\* s with every run of white space between two words made one space, and
\* the white space at its ends dropped
Collapsed(s) ==
  LET word(i) == s[i] \notin Whitespace
      kept(i) == \/ word(i)
                 \/ /\ i > 1 /\ word(i - 1)
                    /\ \E j \in DOMAIN s : j > i /\ word(j)
      places == SelectSeq([i \in DOMAIN s |-> i], kept)
  IN [k \in DOMAIN places |-> IF word(places[k]) THEN s[places[k]] ELSE " "]

DealsDamageInBraces ==
  <<"d","e","a","l","s"," ","{","D","a","m","a","g","e","}"," ","t","o"," ","e","n","e","m","i","e","s">>

\* C17: for a legacy description (no mapping), the Description Normalizer
\* writes every token @Name@ and @Name*100@ left by its removal steps as
\* {Name} and {Name*100}, leaves the prose around them in place, makes every
\* run of white space one space and drops the white space at the ends;
\* "deals @Damage@ to enemies" becomes "deals {Damage} to enemies"
C17_LegacyTokensToBraces ==
  (pc \in {"loaded", "formatted"} /\ DOMAIN JsonMap = {}) =>
    /\ (ProseAndTokens(json.description)
          /\ Collapsed(json.description) # <<>>) =>
         ability.Description = Collapsed(TokensInBraces(json.description))
    /\ normalizeDescription(json.description) # <<>> =>
         ability.Description = Collapsed(ability.Description)
    /\ json.description = DealsDamageToEnemies =>
         ability.Description = DealsDamageInBraces

\* C17 happens: a legacy description with a token @A*100@ and white space
\* to collapse has been normalized
C17_Witness ==
  /\ pc = "loaded"
  /\ DOMAIN JsonMap = {}
  /\ ProseAndTokens(json.description)
  /\ Contains(json.description, <<"@","A","*","1","0","0","@">>)
  /\ json.description # Collapsed(json.description)
  /\ Contains(ability.Description, <<"{","A","*","1","0","0","}">>)

----------------------------------------------------------------------------
(* Properties of the server *)

\* FormatAbilityDescription as one function of the Ability
FormatAbilityDescriptionOf(a) ==
  IF ChosenDescription(a) = <<>> THEN <<>>
  ELSE FinishOutput(
         replaceAbilityTokens(
           replaceAbilityTokens(
             replaceParenthesizedTokens(EscapeString(ChosenDescription(a)),
                                        a.Variables),
             a.Variables, "at"),
           a.Variables, "brace"))

\* LoadUnits has returned to the handler of request r
PastLoadUnits(r) ==
  req[r].pc \in {"render", "paren", "at", "brace", "finish", "write", "responded"}

\* the page of request r is rendered
Rendered(r) == req[r].pc \in {"write", "responded"}

\* C18: the invocations of FormatAbilityDescription on one Ability, one
\* after the other or interleaved step by step across the requests, all
\* return the same output, which is the output of the function run alone,
\* and they leave the Ability as it was loaded
C18_FormatDeterministic ==
  /\ \A r1 \in Requests : \A r2 \in Requests :
       (Rendered(r1) /\ Rendered(r2) /\ req[r1].units = req[r2].units) =>
         req[r1].page = req[r2].page
  /\ \A r \in Requests :
       (Rendered(r) /\ req[r].units # <<>>) =>
         req[r].page = <<FormatAbilityDescriptionOf(req[r].units[1])>>
  /\ \A r \in Requests :
       (PastLoadUnits(r) /\ ~req[r].got.err) =>
         /\ req[r].units = loaderData
         /\ req[r].got.data = loaderData

\* C18 happens: one request is in the middle of an invocation (its tokens
\* in parentheses are replaced, its other tokens are not yet) while the
\* other has rendered the same Ability into a page with markup
C18_Witness ==
  /\ req[1].pc = "at"
  /\ Rendered(2)
  /\ req[1].units = req[2].units
  /\ req[2].units # <<>>
  /\ TokenOpen \in Range(req[2].page[1])
  /\ GroupOpen \in Range(req[1].withParen)

\* C19: under every interleaving of the LoadUnits calls on the loader, the
\* load from disk runs at most once, no call returns before it has finished,
\* and every call returns the same data and error, which are what the one
\* load produced; a load that failed is not run again
C19_LoadOnceSameResult ==
  /\ loads <= 1
  /\ loads = 1 <=> once = "done"
  /\ \A r \in Requests :
       (req[r].pc = "return" \/ PastLoadUnits(r)) => once = "done"
  /\ \A r \in Requests :
       PastLoadUnits(r) => req[r].got = [data |-> loaderData, err |-> loadErr]
  /\ \A r1 \in Requests : \A r2 \in Requests :
       (PastLoadUnits(r1) /\ PastLoadUnits(r2)) => req[r1].got = req[r2].got

\* C19 happens: the one load failed, the file has since become a set file
\* that loads, and two calls have both returned the cached error
C19_Witness ==
  /\ loads = 1
  /\ loadErr
  /\ disk.readable /\ ~DecodeSetAbility(disk.json).err
  /\ PastLoadUnits(1) /\ PastLoadUnits(2)
  /\ req[1].got.err /\ req[2].got.err

\* C20 as stated: when the set data cannot be read or decoded, the process
\* does not serve, and no page is rendered from a missing or substituted
\* dataset
C20_FailedLoadIsFatal ==
  loadErr =>
    /\ server # "serving"
    /\ \A r \in Requests : ~Rendered(r)

----------------------------------------------------------------------------
(* Properties of the unit loader *)

\* the champion has a local image under its name slug or its apiName slug,
\* or an upstream portrait
HasImage(ch) ==
  \/ \E k \in DOMAIN unitDir :
       /\ ~unitDir[k].IsDir
       /\ unitSlug(IndexBase(unitDir[k].Name))
            \in {unitSlug(ch.Name), unitSlug(ch.APIName)}
  \/ ch.Portrait # <<>>

\* how many units of us carry this name and cost
UnitsOf(us, n, c) ==
  Cardinality({i \in DOMAIN us : us[i].Name = n /\ us[i].Cost = c})

\* how many champions with an image carry this name and cost
ChampionsWithImage(chs, n, c) ==
  Cardinality({i \in DOMAIN chs :
                 /\ HasImage(chs[i])
                 /\ TrimSpace(chs[i].Name) = n
                 /\ chs[i].Cost = c})

\* C21: every unit of the dataset has a non-empty image URL; a readable set
\* file never makes the load fail, and the dataset returned holds exactly the
\* champions that have a local image (by name slug or apiName slug) or an
\* upstream portrait, each as often as the set file lists it
C21_UnitsHaveImageSkipIsLocal ==
  /\ \A i \in DOMAIN units : units[i].URL # <<>>
  /\ setFile.readable => loadPc # "failed"
  /\ loadPc = "done" =>
       /\ Len(units) =
            Cardinality({i \in DOMAIN setFile.champions :
                           HasImage(setFile.champions[i])})
       /\ \A i \in DOMAIN setFile.champions :
            UnitsOf(units, TrimSpace(setFile.champions[i].Name),
                    setFile.champions[i].Cost)
              = ChampionsWithImage(setFile.champions,
                                   TrimSpace(setFile.champions[i].Name),
                                   setFile.champions[i].Cost)

\* a load that passed over one champion and kept another
C21_Witness ==
  /\ loadPc = "done"
  /\ Len(setFile.champions) = 2
  /\ Len(units) = 1
  /\ ~HasImage(setFile.champions[1])

\* units in non-decreasing cost and, at equal cost, non-decreasing name
SortedByCostAndName(us) ==
  \A i, j \in DOMAIN us :
    i < j =>
      \/ us[i].Cost < us[j].Cost
      \/ us[i].Cost = us[j].Cost /\ ~StringLess(us[j].Name, us[i].Name)

\* b holds the units of a, each as often as a does
PermutationOf(a, b) ==
  /\ Len(a) = Len(b)
  /\ \A i \in DOMAIN a :
       Cardinality({k \in DOMAIN a : a[k] = a[i]})
         = Cardinality({k \in DOMAIN b : b[k] = a[i]})

\* C22: the sort of a load leaves the units in non-decreasing cost and, at
\* equal cost, non-decreasing name; it returns a permutation of what it was
\* given, and leaves a slice of at most one unit unchanged
C22_SortedPermutation ==
  [][SortAndReturn =>
       /\ SortedByCostAndName(units')
       /\ PermutationOf(units, units')
       /\ Len(units) <= 1 => units' = units]_vars

\* a returned dataset of two units of equal cost that the sort has reordered
C22_Witness ==
  /\ loadPc = "done"
  /\ Len(units) = 2
  /\ units[1].Cost = units[2].Cost
  /\ units[1].Name # units[2].Name
  /\ units[1].Name = TrimSpace(setFile.champions[2].Name)

----------------------------------------------------------------------------
(* Properties of the Gzip middleware *)

\* the response is the gzip stream of what the wrapped handler wrote, marked
\* Content-Encoding: gzip
ResponseCompressed ==
  /\ wHeader.ContentEncoding = Lit_gzip
  /\ wBody = <<GzipStream(Concat(nextWrites))>>

\* the response is what the wrapped handler wrote, without the header
ResponsePassedThrough ==
  /\ wHeader.ContentEncoding = <<>>
  /\ wBody = Concat(nextWrites)

\* C23 as stated: the response is compressed exactly when the method is not
\* HEAD, the Accept-Encoding header (any of its lines) contains "gzip" and the
\* extension of the path is one of the listed ones or is missing; otherwise
\* it is passed through
C23_GzipIffHeaderAndExtension ==
  gzPc = "done" =>
    IF /\ rq.Method # "HEAD"
       /\ \E k \in DOMAIN rq.AcceptEncoding :
            Contains(rq.AcceptEncoding[k], Lit_gzip)
       /\ Ext(rq.Path) \in CompressibleExts \cup {<<>>}
      THEN ResponseCompressed
      ELSE ResponsePassedThrough

\* C23, amended: the response is compressed exactly when the method is not
\* HEAD, the first Accept-Encoding line of the request contains "gzip" and
\* the extension of the path, letter case apart, is one of the listed ones or
\* is missing; otherwise it is passed through
C23_GzipIffFirstLineAndExtensionAnyCase ==
  gzPc = "done" =>
    IF /\ rq.Method # "HEAD"
       /\ rq.AcceptEncoding # <<>>
       /\ Contains(rq.AcceptEncoding[1], Lit_gzip)
       /\ \E e \in CompressibleExts \cup {<<>>} :
            /\ Len(e) = Len(Ext(rq.Path))
            /\ \A k \in DOMAIN e : ToUpper(e[k]) = ToUpper(Ext(rq.Path)[k])
      THEN ResponseCompressed
      ELSE ResponsePassedThrough

\* a compressed response to a request for a style sheet, written in two chunks
C23_Witness ==
  /\ gzPc = "done"
  /\ rq.Method = "GET"
  /\ Ext(rq.Path) = <<".","c","s","s">>
  /\ Len(nextWrites) = 2
  /\ ResponseCompressed

----------------------------------------------------------------------------
(* Properties of the tooltips *)

\* C24: a disabled tooltip is hidden, whatever pointer, focus and timer events
\* arrive, for as long as it is disabled
C24_DisabledIsHidden ==
  \A c \in Containers :
    tooltipStates[c].isDisabled => tooltipStates[c].status = "hidden"

\* a disabled tooltip whose container is hovered and focused, next to a
\* locked one
C24_Witness ==
  /\ tooltipStates[1].isDisabled
  /\ 1 \in hoveredContainers
  /\ focus = OnContainer(1)
  /\ tooltipStates[2].status = "locked"

\* C28: while a container holds the active pointer capture its own tooltip is
\* hidden, no step makes any tooltip following, and a show timer that fires
\* changes nothing but the timer itself
C28_NoShowDuringCapture ==
  /\ [](activePointerContainer # 0 =>
          tooltipStates[activePointerContainer].status = "hidden")
  /\ [][activePointerContainer # 0 =>
          \A t \in Containers :
            tooltipStates'[t].status = "following" =>
              tooltipStates[t].status = "following"]_vars
  /\ [][\A t \in Containers :
          ShowTimerFires(t) /\ activePointerContainer # 0 =>
            /\ \A u \in Containers :
                 tooltipStates'[u].status = tooltipStates[u].status
            /\ timers'[t].lockTimeout = timers[t].lockTimeout
            /\ UNCHANGED <<hoveredContainers, activePointerContainer,
                           activePointerId>>]_vars

\* the show timer of the second tooltip has fired while the first container
\* held the capture
C28_Witness ==
  /\ activePointerContainer = 1
  /\ tooltipStates[2].showTimeout = "fired"
  /\ tooltipStates[2].status = "hidden"
  /\ ~tooltipStates[2].isDisabled
  /\ 2 \in hoveredContainers

\* C29: a locked tooltip changes to no status but hidden
C29_LockedOnlyToHidden ==
  [][\A t \in Containers :
       tooltipStates[t].status = "locked" =>
         tooltipStates'[t].status \in {"locked", "hidden"}]_vars

\* for every tooltip at most one show timer and one lock timer are pending
AtMostOneTimerEach ==
  \A c \in Containers :
    timers[c].showTimeout <= 1 /\ timers[c].lockTimeout <= 1

\* the show timer has fired and put the tooltip in following, with its lock
\* countdown running
NowFollowing(c) ==
  tooltipStates[c].status = "following" /\ timers[c].lockTimeout > 0

\* C30 as stated: once the pointer has come onto a container with no capture
\* active and the tooltip enabled (its show timer is then pending), and as
\* long as no other event reaches the container, the tooltip gets to
\* following and from there to locked, the timers firing in the end; and no
\* tooltip has two show timers or two lock timers pending
C30_EnterLeadsToFollowingThenLocked ==
  /\ \A c \in Containers :
       (quiet[c] /\ timers[c].showTimeout > 0)
         ~> (NowFollowing(c) \/ ~quiet[c])
  /\ \A c \in Containers :
       (quiet[c] /\ NowFollowing(c))
         ~> (tooltipStates[c].status = "locked" \/ ~quiet[c])
  /\ []AtMostOneTimerEach

\* C30, amended: the same, unless a pointer capture becomes active on some
\* container before the show timer has put the tooltip in following
C30_EnterLeadsToLockedUnlessCapture ==
  /\ \A c \in Containers :
       (quiet[c] /\ timers[c].showTimeout > 0)
         ~> \/ NowFollowing(c)
            \/ ~quiet[c]
            \/ activePointerContainer # 0
  /\ \A c \in Containers :
       (quiet[c] /\ NowFollowing(c))
         ~> (tooltipStates[c].status = "locked" \/ ~quiet[c])
  /\ []AtMostOneTimerEach

\* the pointer came onto the first container, nothing else reached it, and
\* its tooltip is locked
C30_Witness ==
  /\ quiet[1]
  /\ pointerAt[1] = OnContainer(1)
  /\ tooltipStates[1].status = "locked"
  /\ tooltipStates[1].showTimeout = "fired"

----------------------------------------------------------------------------
(* Properties of the unit filter *)

\* what each query of the model asks for, read off its text: the number of
\* its first "N cost" filter (NullCost when it has none) and the words that
\* are left once its cost filters are taken out, in lower case
QueryMeaning ==
  (<<>> :> [n |-> NullCost, words |-> {}])
  @@ (<<" ","A","h","r","i">>
        :> [n |-> NullCost, words |-> {<<"a","h","r","i">>}])
  @@ (<<"3"," ","c","o","s","t">> :> [n |-> 3, words |-> {}])
  @@ (<<"a","p"," ","1","c","o","s","t">>
        :> [n |-> 1, words |-> {<<"a","p">>}])
  @@ (<<"1","3"," ","C","o","s","t">> :> [n |-> 13, words |-> {}])
  @@ (<<"a","3","c","o","s","t","h">>
        :> [n |-> 3, words |-> {<<"a","h">>}])
  @@ (<<"1"," ","c","o","s","t"," ","3","c","o","s","t">>
        :> [n |-> 1, words |-> {}])
  @@ (<<"c","o","s","t">> :> [n |-> NullCost, words |-> {Lit_cost}])
  @@ (<<"A","P"," "," ","z","o">>
        :> [n |-> NullCost, words |-> {<<"a","p">>, <<"z","o">>}])

\* the cost of a container as a number
CostValue == (<<"1">> :> 1) @@ (<<"3">> :> 3)

\* how many times the element is in the list
Times(list, el) == Cardinality({k \in DOMAIN list : list[k] = el})

\* the search text the index holds for the container at position k
SearchTextOf(k) == createUnitIndex(elements)[k].text

\* the four conditions of the filter for the container at position k
ShouldBeVisible(k) ==
  /\ criteria.selectedCosts = {} \/ elements[k].cost \in criteria.selectedCosts
  /\ \/ QueryMeaning[criteria.query].n = NullCost
     \/ QueryMeaning[criteria.query].n = CostValue[elements[k].cost]
  /\ ~criteria.unlockOnly \/ elements[k].unlock = Lit_true
  /\ \A w \in QueryMeaning[criteria.query].words :
       Contains(SearchTextOf(k), w)

\* C25: filterUnits partitions the index: every indexed unit is in exactly
\* one of visible and hidden, it is in visible exactly when the selected
\* costs are empty or hold its cost, the query has no "N cost" filter or N
\* (of the first one) is its cost, unlockOnly is off or the unit is
\* unlockable, and every remaining word of the query is in its search text;
\* count is the length of visible
C25_FilterUnitsPartitions ==
  filterPc = "filtered" =>
    /\ \A k \in DOMAIN elements :
         /\ Times(filtered.visible, elements[k])
              + Times(filtered.hidden, elements[k]) = 1
         /\ Times(filtered.visible, elements[k]) = 1 <=> ShouldBeVisible(k)
    /\ Len(filtered.visible) + Len(filtered.hidden) = Len(elements)
    /\ filtered.count = Len(filtered.visible)

\* a filtered document with a visible and a hidden unit, where the query has
\* a cost filter and a word, a cost button is selected and unlockOnly is on
C25_Witness ==
  /\ filterPc = "filtered"
  /\ filtered.visible # <<>>
  /\ filtered.hidden # <<>>
  /\ QueryMeaning[criteria.query].n # NullCost
  /\ QueryMeaning[criteria.query].words # {}
  /\ criteria.selectedCosts # {}

----------------------------------------------------------------------------
(* Properties of the passes of the formatter *)

\* the markup elements that open and that close what a substitution inserts
InsertOpeners == {GroupOpen, TokenOpen, IconOpen}

InsertClosers == {GroupClose, SpanClose, IconClose}

\* s from i on with the brace tokens of the text outside every insertion
\* replaced and every insertion (depth > 0) kept as it is
RECURSIVE BraceOutsideInsertions(_, _, _, _)
BraceOutsideInsertions(s, i, depth, variables) ==
  IF i > Len(s) THEN <<>>
  ELSE IF s[i] \in InsertOpeners
    THEN <<s[i]>> \o BraceOutsideInsertions(s, i + 1, depth + 1, variables)
  ELSE IF s[i] \in InsertClosers
    THEN <<s[i]>> \o BraceOutsideInsertions(s, i + 1, depth - 1, variables)
  ELSE IF depth = 0 /\ DOMAIN variables # {} /\ TokenRe("brace", s, i) # 0
    THEN TokenReplacement(SubSeq(s, i, TokenRe("brace", s, i)), variables)
         \o BraceOutsideInsertions(s, TokenRe("brace", s, i) + 1, 0, variables)
  ELSE <<s[i]>> \o BraceOutsideInsertions(s, i + 1, depth, variables)

\* C26: text inserted by a token substitution is final: the brace-token pass
\* replaces the brace tokens of the description text only and leaves the
\* markup and the value text that the parenthesized-group pass and the
\* at-token pass inserted as they are, so a value reading {Other} stays
\* {Other} in element content and in aria-label, also when Other is a variable
C26_InsertedTextIsFinal ==
  pc = "formatted" =>
    withBraceTokens = BraceOutsideInsertions(withAtTokens, 1, 0, ability.Variables)

----------------------------------------------------------------------------
(* Properties of the normalizer as a function *)

\* adaptAbility has applied normalizeDescription to the description of the
\* input and kept its result
Normalized ==
  /\ pc = "loaded"
  /\ json.variables.kind = "list"
  /\ ability.Description = normalizeDescription(json.description)

\* C27: normalizeDescription is idempotent: normalizing its result again
\* gives the same text, no later step having put together a word "keyword",
\* a legacy @Name@ token or anything else an earlier step takes out or converts
C27_NormalizeIdempotent ==
  Normalized => normalizeDescription(ability.Description) = ability.Description

====
